---- MODULE Spec2Model ----
(***************************************************************************)
(* Verification model of the physics + adaptive-rendering core of          *)
(* gravital-visualization: the orbital force (physics/OrbitalForce.ts),    *)
(* its setup hook, and the particle budget of link renderables             *)
(* (rendering/LinkObjects.ts).                                             *)
(*                                                                         *)
(* Numbers.  JavaScript numbers are modelled in fixed point:               *)
(*   - lengths, sizes, coordinates and link values in 1/PosScale units;    *)
(*   - Math.sin / Math.cos results in 1/TrigScale units, from a table;     *)
(*   - angles in steps of 3 degrees (TurnSteps steps per full turn);       *)
(*   - alpha in 1/AlphaDen units; velocities in 1/(PosScale*AlphaDen).     *)
(* Every product or quotient is rounded to the nearest unit (RDiv), as a   *)
(* floating-point operation rounds to the nearest representable value.     *)
(* The clock (Date.now()) is sampled at the instants at which a branch     *)
(* node of strength 1 has advanced by a whole number of 6-degree steps.    *)
(***************************************************************************)
EXTENDS Integers, Sequences, FiniteSets, TLC

\* ------------------------------------------------------------------------
\* Bounds of the model
\* ------------------------------------------------------------------------
NumNodes == 3
MaxLinks == 2
MaxTicks == 1
MaxSetups == 2
MaxArrays == 3
MaxRandoms == 2
MaxUpdates == 3
MaxNow == 200
MaxHistoryNow == 6500
MaxStarts == 2
MaxBase == 40
MaxIndex == 60
MaxGraphNodes == 2
MaxGraphLinks == 1
MaxAdds == 3
MaxDisposals == 2

\* ------------------------------------------------------------------------
\* Fixed-point representation
\* ------------------------------------------------------------------------
PosScale == 100
TrigScale == 1000
AlphaDen == 2
TurnSteps == 120
OffDen == 20

\* ------------------------------------------------------------------------
\* Program constants of OrbitalForce.ts
\* ------------------------------------------------------------------------
RadiusPad == 10
ValueAdjust == 30
ForceCap == 2
PlaneCount == 5
LeafSpeed == 5
BranchSpeed == 2
PhaseStep == 10
PlaneStep == 6
PlaneBase == 3

\* ------------------------------------------------------------------------
\* Program constants of LinkObjects.ts
\* ------------------------------------------------------------------------
MaxParticlesHigh == 50
MaxParticlesMedium == 25
MaxParticlesLow == 10
MaxParticlesFallback == 25

\* ------------------------------------------------------------------------
\* Program constants of PerformanceMonitor
\* ------------------------------------------------------------------------
HistoryCap == 60
LowBelow == 15
MediumBelow == 30
MsPerSecond == 1000

\* ------------------------------------------------------------------------
\* Program constants of the quality tiers
\* ------------------------------------------------------------------------
MinSegmentsMedium == 8
MinSegmentsLow == 6

\* ------------------------------------------------------------------------
\* Program constants of validateEcosystemData
\* ------------------------------------------------------------------------
MaxPercentage == 100

VARIABLES
  node,        \* the node objects: ref -> [id, type, size, x, y, z, vx, vy, vz]
  hostNodes,   \* the host simulation's node array (sequence of refs)
  hostLinks,   \* the host's graph links (sequence of links)
  nodes,       \* orbitalForce closure: bound node collection
  links,       \* orbitalForce closure: bound link collection
  strength,    \* orbitalForce closure: strength
  focalPoint,  \* orbitalForce closure: focal point (a ref, or NoNode)
  strengthArg, \* history: the argument of the last strength(_) call
  focalArg,    \* history: the argument of the last focalPoint(_) call
  ticks,       \* number of force(alpha) calls made so far
  lastForce    \* history: the arguments and pre-state of the force(alpha) call
               \* that was the last operation, NoCall after any other operation

VARIABLES
  node2,       \* the node objects of a second force instance run in lockstep
  focalPoint2, \* the second instance's focal point
  focalArg2    \* history: the argument of its last focalPoint(_) call

VARIABLES
  rad          \* calculateOrbitRadius: its inputs, its result, and the value
               \* and result of the call before it with the same sizes

VARIABLES
  fgLinks,     \* forceGraph.graphData().links: the identity of the current array
  simNodes,    \* simulation.nodes(): the identity of the current array
  orbitalSlot, \* simulation.force('orbital'): a force instance, or NoForce
  tickHooks,   \* number of 'tick' listeners registered by setupOrbitalPhysics
  instances,   \* number of force instances created by setupOrbitalPhysics
  bind,        \* per instance: the arrays it is bound to and its strength
  arrays,      \* number of arrays the host has created so far
  lastOp       \* history: the last setup-level operation and its pre-state

VARIABLES
  linkPool,    \* linkResourceManager: null, or the pool and its parameters
  linkObj,     \* the renderable returned by the last createLinkObject call
  psys,        \* its particle system: __metadata and the position attribute
  ends,        \* the source and target objects captured by __updateParticles
  lastUpdate   \* history: the last updateLinkObjects call and its pre-state

forceVars == <<node, hostNodes, hostLinks, nodes, links, strength, focalPoint,
               strengthArg, focalArg, ticks, lastForce>>
twinVars == <<node2, focalPoint2, focalArg2>>
radVars == <<rad>>
setupVars == <<fgLinks, simNodes, orbitalSlot, tickHooks, instances, bind, arrays, lastOp>>
VARIABLES
  pm,            \* the PerformanceMonitor's fields
  memoryHistory, \* its memoryHistory array
  rafPending,    \* ids of the frame requests not yet run or cancelled
  rafNext,       \* the id the next requestAnimationFrame call returns
  clock,         \* performance.now()
  memAvail,      \* whether the host exposes performance.memory
  monLog         \* history: the last monitor operation, its pre-state and counts

VARIABLES
  tier           \* the settings derived from a quality tier for one sphere base

linkVars == <<linkPool, linkObj, psys, ends, lastUpdate>>
tierVars == <<tier>>
monVars == <<pm, memoryHistory, rafPending, rafNext, clock, memAvail, monLog>>

VARIABLES
  slot           \* two node indices of one kind and the orbital targets computed for them

VARIABLES
  valid          \* a validateEcosystemData call: its argument and how it ended

VARIABLES
  registry,      \* ResourceManager: per kind, the object registered under each name
  disposals,     \* per kind and object, the number of dispose() calls it received
  adds           \* number of add calls made so far

VARIABLES
  isMounted,        \* GravitalVisualization: the isMounted state
  isVisible,        \* the isVisible state
  deviceCapability, \* the deviceCapability state
  showValueFlow,    \* preferences.showValueFlow
  alive,            \* whether the component has not been unmounted
  hasGraph,         \* forceGraphRef.current is set
  refSeen,          \* forceGraphRef.current as read by the last render
  monitoring,       \* the performance effect has a monitor running
  resActive,        \* the resource effect's last run returned its cleanup
  animActive,       \* the particle effect's last run returned its cleanup
  requestRef,       \* requestRef.current: a frame request id, or NoRaf
  animPending,      \* ids of the particle loop's frame requests not yet run or cancelled
  nodePool,         \* NodeObjects' resourceManager: null, or the pool and its detail
  poolId,           \* identity of the node pool and of the link pool objects
  lastComp          \* history: the last component-level operation and its pre-state

slotVars == <<slot>>
validVars == <<valid>>
resVars == <<registry, disposals, adds>>
compVars == <<isMounted, isVisible, deviceCapability, showValueFlow, alive, hasGraph,
              refSeen, monitoring, resActive, animActive, requestRef, animPending,
              nodePool, poolId, lastComp>>
restVars == <<slotVars, validVars, resVars, compVars>>

vars == <<forceVars, twinVars, radVars, setupVars, linkVars, monVars, tierVars, restVars>>

Refs == 1..NumNodes
NoNode == 0
Types == {"root", "branch", "leaf"}

\* ------------------------------------------------------------------------
\* Arithmetic helpers (Math.*)
\* ------------------------------------------------------------------------
Max(a, b) == IF a >= b THEN a ELSE b
Min(a, b) == IF a <= b THEN a ELSE b

\* a / b rounded to the nearest unit (b > 0)
RDiv(a, b) ==
  IF a >= 0 THEN (2 * a + b) \div (2 * b) ELSE -((2 * (-a) + b) \div (2 * b))

\* Math.sqrt, rounded to the nearest unit
RECURSIVE SqrtSearch(_, _, _)
SqrtSearch(n, lo, hi) ==
  IF lo >= hi THEN lo
  ELSE LET mid == (lo + hi + 1) \div 2
       IN IF mid * mid <= n THEN SqrtSearch(n, mid, hi)
                            ELSE SqrtSearch(n, lo, mid - 1)

Sqrt(n) ==
  LET r == SqrtSearch(n, 0, 40000)
  IN IF n - r * r > r THEN r + 1 ELSE r

\* sin of k*3 degrees, k in 0..30, in 1/TrigScale units
SinTable ==
  <<0, 52, 105, 156, 208, 259, 309, 358, 407, 454, 500, 545, 588, 629, 669,
    707, 743, 777, 809, 839, 866, 891, 914, 934, 951, 966, 978, 988, 995,
    999, 1000>>

\* Math.sin of an angle given in 3-degree steps
Sin(a) ==
  LET k == a % TurnSteps
      q == TurnSteps \div 4
  IN IF k <= q THEN SinTable[k + 1]
     ELSE IF k <= 2 * q THEN SinTable[2 * q - k + 1]
     ELSE IF k <= 3 * q THEN -SinTable[k - 2 * q + 1]
     ELSE -SinTable[4 * q - k + 1]

\* Math.cos of an angle given in 3-degree steps
Cos(a) == Sin(a + TurnSteps \div 4)

\* ------------------------------------------------------------------------
\* Links and node objects
\* ------------------------------------------------------------------------
\* An endpoint of a link is a node object (d3 has resolved it) or a bare id.
Obj(r) == [kind |-> "object", ref |-> r]
Bare(i) == [kind |-> "id", ref |-> i]

\* typeof e === 'object'
IsObject(e) == e.kind = "object"

\* e.id: the id of a node object; a string has no such property
EndId(h, e) == IF IsObject(e) THEN h[e.ref].id ELSE NoNode

\* e.type: the kind of a node object; a string has no such property
EndType(h, e) == IF IsObject(e) THEN h[e.ref].type ELSE "undefined"

IsAnchor(t) == t = "branch" \/ t = "root"

\* A variant that also matches an endpoint given as the node's bare id
IsParentLinkById(h, link, nd) ==
  LET idOf(e) == IF IsObject(e) THEN h[e.ref].id ELSE e.ref
  IN \/ idOf(link.source) = nd.id /\ IsAnchor(EndType(h, link.target))
     \/ idOf(link.target) = nd.id /\ IsAnchor(EndType(h, link.source))

\* The predicate of links.filter(...) for the node nd
IsParentLink(h, link, nd) ==
  /\ IsObject(link.source) /\ IsObject(link.target)
  /\ \/ EndId(h, link.source) = nd.id /\ IsAnchor(EndType(h, link.target))
     \/ EndId(h, link.target) = nd.id /\ IsAnchor(EndType(h, link.source))

\* parentLinks: the matching links in the order of the bound collection,
\* each link named by its position in that collection
ParentLinks(h, ls, nd) ==
  SelectSeq([i \in 1..Len(ls) |-> i], LAMBDA i : IsParentLink(h, ls[i], nd))

PickLast(parentLinks) == parentLinks[Len(parentLinks)]

\* parentLinks[0]
PickParentLink(parentLinks) == parentLinks[1]

\* parentLink.source.id === node.id ? parentLink.target : parentLink.source
ParentOf(h, link, nd) ==
  IF EndId(h, link.source) = nd.id THEN link.target.ref ELSE link.source.ref

\* nodes.findIndex(n => n.id === node.id), 0-based
FindIndex(h, ns, id) ==
  (CHOOSE i \in 1..Len(ns) :
     /\ h[ns[i]].id = id
     /\ \A j \in 1..(i - 1) : h[ns[j]].id # id) - 1

\* ------------------------------------------------------------------------
\* The force function
\* ------------------------------------------------------------------------
\* if (strength <= 0) return
Skips(s) == s <= 0

NeverRoot(nd) == FALSE

\* node.type === 'root'
IsRoot(nd) == nd.type = "root"

\* node.type === 'leaf' ? 0.00025 * strength : 0.0001 * strength,
\* in angle steps per clock unit
OrbitSpeed(nd, s) == IF nd.type = "leaf" THEN LeafSpeed * s ELSE BranchSpeed * s

RadiusUnclamped(parent, nd, linkValue) ==
  parent.size + nd.size + RadiusPad * PosScale
    + (IF linkValue # 0
         THEN RDiv(ValueAdjust * PosScale * PosScale, linkValue)
         ELSE ValueAdjust * PosScale)

\* calculateOrbitRadius(parent, node, linkValue)
calculateOrbitRadius(parent, nd, linkValue) ==
  LET baseRadius == parent.size + nd.size + RadiusPad * PosScale
      valueAdjustment ==
        IF linkValue # 0
          THEN RDiv(ValueAdjust * PosScale * PosScale, Max(linkValue, PosScale))
          ELSE ValueAdjust * PosScale
  IN baseRadius + valueAdjustment

\* (targetX, targetY, targetZ) of lines 67-76
Target(parent, nd, nodeIndex, s, linkValue, now) ==
  LET orbitRadius == calculateOrbitRadius(parent, nd, linkValue)
      planeOffset == (nodeIndex % PlaneCount) * PlaneStep + PlaneBase
      angle == now * OrbitSpeed(nd, s) + nodeIndex * PhaseStep
      onPlane == RDiv(Sin(angle) * orbitRadius, TrigScale)
  IN <<parent.x + RDiv(Cos(angle) * orbitRadius, TrigScale),
       parent.y + RDiv(onPlane * Cos(planeOffset), TrigScale),
       parent.z + RDiv(onPlane * Sin(planeOffset), TrigScale)>>

\* Math.sqrt(dx * dx + dy * dy + dz * dz)
Distance(d) == Sqrt(d[1] * d[1] + d[2] * d[2] + d[3] * d[3])

MagnitudeUncapped(distance, alpha, s) == distance * alpha * s

\* Math.min(distance, 2) * alpha * strength
ForceMagnitude(distance, alpha, s) == Min(distance, ForceCap * PosScale) * alpha * s

OrbitCentreFocal(h, focal, parent) == IF focal # NoNode THEN focal ELSE parent

\* The node whose position is the centre of the orbit: always the parent
OrbitCentre(h, focal, parent) == parent

\* The velocity delta of lines 79-93 for the node object r orbiting the node
\* object p over a link of value linkValue
DeltaToward(h, c, r, p, linkValue, alpha, now) ==
  LET nd == h[r]
      parent == h[p]
      nodeIndex == FindIndex(h, c.nodes, nd.id)
      target == Target(parent, nd, nodeIndex, c.strength, linkValue, now)
      d == <<target[1] - nd.x, target[2] - nd.y, target[3] - nd.z>>
      distance == Distance(d)
      forceMagnitude == ForceMagnitude(distance, alpha, c.strength)
  IN IF distance = 0 THEN <<0, 0, 0>>
     ELSE <<RDiv(d[1] * forceMagnitude, distance),
            RDiv(d[2] * forceMagnitude, distance),
            RDiv(d[3] * forceMagnitude, distance)>>

\* Lines 57-93 for the node object r and its parent link c.links[k]
Delta(h, c, r, k, alpha, now) ==
  LET parentLink == c.links[k]
      parent == OrbitCentre(h, c.focalPoint, ParentOf(h, parentLink, h[r]))
  IN DeltaToward(h, c, r, parent, parentLink.value, alpha, now)

\* The position in c.links of the parent link used for node r, 0 if the
\* callback returns before choosing one
UsedLink(h, c, r) ==
  IF IsRoot(h[r]) THEN 0
  ELSE LET parentLinks == ParentLinks(h, c.links, h[r])
       IN IF Len(parentLinks) = 0 THEN 0 ELSE PickParentLink(parentLinks)

\* A variant whose callback also moves the node along the x axis
VisitNodeMoves(h, c, r, alpha, now) ==
  LET k == UsedLink(h, c, r)
  IN IF k = 0 THEN h
     ELSE LET dv == Delta(h, c, r, k, alpha, now)
          IN [h EXCEPT ![r].vx = @ + dv[1], ![r].vy = @ + dv[2], ![r].vz = @ + dv[3],
                       ![r].x = @ + dv[1]]

\* The body of nodes.forEach(node => ...) for the node object r
VisitNode(h, c, r, alpha, now) ==
  LET k == UsedLink(h, c, r)
  IN IF k = 0 THEN h
     ELSE LET dv == Delta(h, c, r, k, alpha, now)
          IN [h EXCEPT ![r].vx = @ + dv[1], ![r].vy = @ + dv[2], ![r].vz = @ + dv[3]]

RECURSIVE ForEachNode(_, _, _, _, _)
ForEachNode(h, c, i, alpha, now) ==
  IF i > Len(c.nodes) THEN h
  ELSE ForEachNode(VisitNode(h, c, c.nodes[i], alpha, now), c, i + 1, alpha, now)

\* force(alpha) on the closure state c and the node objects h
ApplyForce(h, c, alpha, now) ==
  IF Skips(c.strength) THEN h ELSE ForEachNode(h, c, 1, alpha, now)

Closure == [nodes |-> nodes, links |-> links, strength |-> strength,
            focalPoint |-> focalPoint]

Velocity(h) == [r \in Refs |-> <<h[r].vx, h[r].vy, h[r].vz>>]

\* ------------------------------------------------------------------------
\* Input domains
\* ------------------------------------------------------------------------
Strengths == {-1, 0, 1, 2}
Alphas == 1..AlphaDen
Clocks == {0, 1}
FocalChoices == {NoNode} \cup Refs

TypeRank(t) == IF t = "root" THEN 0 ELSE IF t = "branch" THEN 1 ELSE 2

\* Assignments of kinds to the node objects, one per multiset of kinds
TypeConfigs ==
  {f \in [Refs -> Types] :
     \A i \in Refs : \A j \in Refs : i < j => TypeRank(f[i]) <= TypeRank(f[j])}

\* The hierarchy root, branch, leaf, leaf, ...
Hierarchy == [r \in Refs |-> IF r = 1 THEN "root" ELSE IF r = 2 THEN "branch" ELSE "leaf"]

DefaultSize(t) ==
  IF t = "root" THEN 10 * PosScale ELSE IF t = "branch" THEN 5 * PosScale ELSE 2 * PosScale

Layout(r) == <<2000 * (r - 1), 700 * (r - 1) * (r - 2), -300 * (r - 1)>>

MakeNode(r, t, p) ==
  [id |-> r, type |-> t, size |-> DefaultSize(t),
   x |-> p[1], y |-> p[2], z |-> p[3], vx |-> 0, vy |-> 0, vz |-> 0]

Link(s, t, v) == [source |-> s, target |-> t, value |-> v]

\* The endpoints a link may have: a node object, or the bare id of the last
\* node (what the code does with a bare id does not depend on which id it is)
Endpoints == {Obj(r) : r \in Refs} \cup {Bare(NumNodes)}

\* Links that mention the last node, by object or by id
StructLinks ==
  {Link(s, t, 5 * PosScale) : s \in {Obj(NumNodes), Bare(NumNodes)}, t \in Endpoints}
    \cup
  {Link(s, t, 5 * PosScale) : s \in Endpoints, t \in {Obj(NumNodes), Bare(NumNodes)}}

SeqsUpTo(S, n) == UNION {[1..k -> S] : k \in 0..n}

\* Offsets of the last node from its orbital target at clock 0
Offsets ==
  {<<0, 0, 0>>, <<100, 0, 0>>, <<200, 0, 0>>, <<0, -150, 0>>, <<0, 0, 201>>,
   <<300, 400, 0>>, <<-2000, 1000, 500>>}

GeomValues == {0, 50, 100, 400, 500, 700}

\* Structure family: every kind assignment and link collection, fixed layout
InitStructure ==
  /\ \E f \in TypeConfigs : node = [r \in Refs |-> MakeNode(r, f[r], Layout(r))]
  /\ hostLinks \in SeqsUpTo(StructLinks, MaxLinks)

\* Geometry family: a fixed hierarchy, the last node at a chosen offset from
\* its orbital target, the link value chosen
InitGeometry ==
  \E v \in GeomValues : \E off \in Offsets :
    LET last == NumNodes
        base == [r \in Refs |-> MakeNode(r, Hierarchy[r], Layout(r))]
        t == Target(base[1], base[last], last - 1, 1, v, 0)
    IN /\ node = [base EXCEPT ![last].x = t[1] + off[1],
                              ![last].y = t[2] + off[2],
                              ![last].z = t[3] + off[3]]
       /\ hostLinks = <<Link(Obj(last), Obj(1), v)>>

NoCall == [called |-> FALSE, alpha |-> 0, now |-> 0,
           pre |-> [r \in Refs |-> <<0, 0, 0>>]]

\* The state after orbitalForce(): let nodes = [], links = [], strength = 1,
\* focalPoint = null
InitForce ==
  /\ InitStructure \/ InitGeometry
  /\ hostNodes = [i \in 1..NumNodes |-> i]
  /\ nodes = <<>>
  /\ links = <<>>
  /\ strength = 1
  /\ focalPoint = NoNode
  /\ strengthArg = 1
  /\ focalArg = NoNode
  /\ ticks = 0
  /\ lastForce = NoCall

\* A second instance over equal nodes, links and strength
InitTwin ==
  /\ node2 = node
  /\ focalPoint2 = NoNode
  /\ focalArg2 = NoNode

RadIdle == [called |-> FALSE, parentSize |-> 0, nodeSize |-> 0, value |-> 0,
            radius |-> 0, hasPrev |-> FALSE, prevValue |-> 0, prevRadius |-> 0]

InitRadIdle == rad = RadIdle

\* ------------------------------------------------------------------------
\* The host simulation and setupOrbitalPhysics
\* ------------------------------------------------------------------------
NoForce == 0
OwnEmpty == 0
Instances == 1..MaxSetups

NoOp == [op |-> "none", threw |-> FALSE, error |-> "none", hasHandle |-> TRUE,
         hasSim |-> TRUE, preSlot |-> NoForce, preHooks |-> 0, preInstances |-> 0,
         preBind |-> [nodes |-> OwnEmpty, links |-> OwnEmpty]]

\* A fresh orbitalForce(): nodes = [], links = [], strength = 1
FreshBinding == [nodes |-> OwnEmpty, links |-> OwnEmpty, strength |-> 1]

\* The host before any setup: graphData = { nodes: [], links: [] }, no force
\* under 'orbital', no listener
InitSetup ==
  /\ fgLinks = 1
  /\ simNodes = 2
  /\ arrays = 2
  /\ orbitalSlot = NoForce
  /\ tickHooks = 0
  /\ instances = 0
  /\ bind = [i \in Instances |-> FreshBinding]
  /\ lastOp = NoOp

\* ------------------------------------------------------------------------
\* The link resource pool
\* ------------------------------------------------------------------------
Details == {"high", "medium", "low"}

NoPool == [exists |-> FALSE, detail |-> "none", maxParticles |-> 0]

NoLinkObj == [created |-> FALSE, value |-> 0, showParticles |-> FALSE,
              hasParticles |-> FALSE, count |-> 0, hasUpdate |-> FALSE,
              poolDetail |-> "none"]

Zero3 == [x |-> 0, y |-> 0, z |-> 0]

\* A renderable without a particle system
NoParticles == [exists |-> FALSE, count |-> 0, speed |-> 0, length |-> 0,
                dir |-> Zero3, offsets |-> <<>>, positions |-> <<>>]

NoEnds == [source |-> Zero3, target |-> Zero3, sourceObj |-> FALSE, targetObj |-> FALSE]

NoUpdate == [called |-> FALSE, hasScene |-> FALSE, pre |-> NoParticles, updates |-> 0]

\* let linkResourceManager = null
InitLink ==
  /\ linkPool = NoPool
  /\ linkObj = NoLinkObj
  /\ psys = NoParticles
  /\ ends = NoEnds
  /\ lastUpdate = NoUpdate

\* ------------------------------------------------------------------------
\* The performance monitor
\* ------------------------------------------------------------------------
NoRaf == 0
Callbacks == {"none", "plain", "stops", "restarts"}

\* new PerformanceMonitor()
NewMonitor == [fps |-> 0, frames |-> 0, lastTime |-> 0, callback |-> "none",
               rafId |-> NoRaf, interval |-> 1000, tracking |-> FALSE]

NoMonOp == [op |-> "none", pre |-> NewMonitor, cbCalls |-> 0, cbValue |-> 0,
            runs |-> 0, level |-> "none"]

NoTier == [called |-> FALSE, detail |-> "none", base |-> 0, segments |-> 0,
           maxParticles |-> 0, particleSize |-> 0]

InitTier == tier = NoTier

\* No orbital target computed yet
NoSlot == [called |-> FALSE, kind |-> "leaf", first |-> 0, second |-> 0, now |-> 0,
           targetFirst |-> <<0, 0, 0>>, targetSecond |-> <<0, 0, 0>>]

InitSlot == slot = NoSlot

\* JavaScript values tested with typeof and compared as numbers
Num(v) == [t |-> "number", v |-> v]
NaN == [t |-> "nan", v |-> 0]
NotNumber == [t |-> "string", v |-> 0]

\* An array, or a value for which Array.isArray is false
Arr(items) == [isArray |-> TRUE, items |-> items]
NotArray == [isArray |-> FALSE, items |-> <<>>]

NullData == [isNull |-> TRUE, nodes |-> NotArray, links |-> NotArray]

\* No validateEcosystemData call made yet
NoValidation == [called |-> FALSE, data |-> NullData, threw |-> FALSE, error |-> "none"]

InitValid == valid = NoValidation

\* The maps of a ResourceManager, the names it is used with, and the
\* geometry, material and texture objects of the program
ResourceKinds == {"geometry", "material", "texture"}
ResourceNames == {"a", "b"}
ResourceObjects == 1..2
NoObject == 0

\* new ResourceManager(): empty maps; no object disposed yet
InitResources ==
  /\ registry = [k \in ResourceKinds |-> [n \in ResourceNames |-> NoObject]]
  /\ disposals = [k \in ResourceKinds |-> [o \in ResourceObjects |-> 0]]
  /\ adds = 0

\* let resourceManager = null
NoNodePool == [exists |-> FALSE, detail |-> "none", rootSegments |-> 0]

\* Neither pool object exists, none was created before
NoPoolIds == [node |-> [cur |-> 0, last |-> 0], link |-> [cur |-> 0, last |-> 0]]

\* No initNodeResources / initLinkResources call made by the last operation
NoInitCall == [called |-> FALSE, detail |-> "none", nodePool |-> NoNodePool,
               linkPool |-> NoPool, poolId |-> NoPoolIds]

NoCompOp == [op |-> "none", fps |-> 0, pending |-> {}, init |-> NoInitCall]

\* The component after its first render, before any effect ran
InitComponent ==
  /\ isMounted = FALSE
  /\ isVisible = FALSE
  /\ deviceCapability = "medium"
  /\ showValueFlow = TRUE
  /\ alive = TRUE
  /\ hasGraph = FALSE
  /\ refSeen = FALSE
  /\ monitoring = FALSE
  /\ resActive = FALSE
  /\ animActive = FALSE
  /\ requestRef = NoRaf
  /\ animPending = {}
  /\ nodePool = NoNodePool
  /\ poolId = NoPoolIds
  /\ lastComp = NoCompOp

\* The parts of the state a specification of another part leaves idle
InitRest == InitSlot /\ InitValid /\ InitResources /\ InitComponent

InitMonitor ==
  /\ InitTier
  /\ InitRest
  /\ pm = NewMonitor
  /\ memoryHistory = <<>>
  /\ rafPending = {}
  /\ rafNext = 1
  /\ clock = 0
  /\ memAvail = FALSE
  /\ monLog = [last |-> NoMonOp, recorded |-> 0, starts |-> 0, reentered |-> FALSE]

Init ==
  /\ InitForce
  /\ InitTwin
  /\ InitRadIdle
  /\ InitSetup
  /\ InitLink
  /\ InitMonitor

\* ------------------------------------------------------------------------
\* Operations of the force
\* ------------------------------------------------------------------------
\* force.initialize(_nodes, _links?)
Initialize(withLinks) ==
  /\ nodes' = hostNodes
  /\ links' = IF withLinks THEN hostLinks ELSE <<>>
  /\ lastForce' = NoCall
  /\ UNCHANGED <<node, hostNodes, hostLinks, strength, focalPoint, strengthArg, focalArg, ticks>>

StrengthCallTruthy(cur, args) == IF Len(args) > 0 /\ args[1] # 0 THEN args[1] ELSE cur

\* The value of strength after force.strength(...args):
\* arguments.length ? ((strength = _), force) : strength
StrengthCall(cur, args) == IF Len(args) > 0 THEN args[1] ELSE cur

\* The value of focalPoint after force.focalPoint(...args):
\* arguments.length ? ((focalPoint = _), force) : focalPoint
FocalPointCall(cur, args) == IF Len(args) > 0 THEN args[1] ELSE cur

\* force.strength(s)
SetStrength(s) ==
  /\ strength' = StrengthCall(strength, <<s>>)
  /\ strengthArg' = s
  /\ lastForce' = NoCall
  /\ UNCHANGED <<node, hostNodes, hostLinks, nodes, links, focalPoint, focalArg, ticks>>

\* force.focalPoint(f)
SetFocalPoint(f) ==
  /\ focalPoint' = FocalPointCall(focalPoint, <<f>>)
  /\ focalArg' = f
  /\ lastForce' = NoCall
  /\ UNCHANGED <<node, hostNodes, hostLinks, nodes, links, strength, strengthArg, ticks>>

\* force(alpha), with Date.now() = now
Force(alpha, now) ==
  /\ ticks < MaxTicks
  /\ node' = ApplyForce(node, Closure, alpha, now)
  /\ ticks' = ticks + 1
  /\ lastForce' = [called |-> TRUE, alpha |-> alpha, now |-> now,
                   pre |-> Velocity(node)]
  /\ UNCHANGED <<hostNodes, hostLinks, nodes, links, strength, focalPoint, strengthArg, focalArg>>

Next ==
  \/ \E w \in BOOLEAN : Initialize(w) /\ UNCHANGED <<twinVars, radVars, setupVars, linkVars, monVars, tierVars, restVars>>
  \/ \E s \in Strengths : SetStrength(s) /\ UNCHANGED <<twinVars, radVars, setupVars, linkVars, monVars, tierVars, restVars>>
  \/ \E f \in FocalChoices : SetFocalPoint(f) /\ UNCHANGED <<twinVars, radVars, setupVars, linkVars, monVars, tierVars, restVars>>
  \/ \E a \in Alphas : \E t \in Clocks : Force(a, t) /\ UNCHANGED <<twinVars, radVars, setupVars, linkVars, monVars, tierVars, restVars>>

Spec == Init /\ [][Next]_vars

\* ------------------------------------------------------------------------
\* Two force instances in lockstep: the same initialize, strength and
\* force(alpha) calls at the same clock values, independent focalPoint calls
\* ------------------------------------------------------------------------
Closure2 == [nodes |-> nodes, links |-> links, strength |-> strength,
             focalPoint |-> focalPoint2]

\* focalPoint(f) on the second instance
SetFocalPoint2(f) ==
  /\ focalPoint2' = FocalPointCall(focalPoint2, <<f>>)
  /\ focalArg2' = f
  /\ lastForce' = NoCall
  /\ UNCHANGED <<node, hostNodes, hostLinks, nodes, links, strength, focalPoint,
                 strengthArg, focalArg, ticks, node2>>

\* force(alpha) on both instances, Date.now() = now in both
ForceBoth(alpha, now) ==
  /\ Force(alpha, now)
  /\ node2' = ApplyForce(node2, Closure2, alpha, now)
  /\ UNCHANGED <<focalPoint2, focalArg2>>

\* A fixed hierarchy with one or two links
InitTwinForce ==
  /\ \E ls \in SeqsUpTo({Link(Obj(NumNodes), Obj(1), 5 * PosScale),
                         Link(Obj(2), Obj(NumNodes), 0),
                         Link(Obj(1), Obj(2), PosScale)}, MaxLinks) :
       hostLinks = ls
  /\ node = [r \in Refs |-> MakeNode(r, Hierarchy[r], Layout(r))]
  /\ hostNodes = [i \in 1..NumNodes |-> i]
  /\ nodes = <<>>
  /\ links = <<>>
  /\ strength = 1
  /\ focalPoint = NoNode
  /\ strengthArg = 1
  /\ focalArg = NoNode
  /\ ticks = 0
  /\ lastForce = NoCall

InitFocal ==
  /\ InitTwinForce
  /\ InitTwin
  /\ InitRadIdle
  /\ InitSetup
  /\ InitLink
  /\ InitMonitor

NextFocal ==
  \/ \E w \in BOOLEAN : Initialize(w) /\ UNCHANGED <<twinVars, radVars, setupVars, linkVars, monVars, tierVars, restVars>>
  \/ \E s \in Strengths : SetStrength(s) /\ UNCHANGED <<twinVars, radVars, setupVars, linkVars, monVars, tierVars, restVars>>
  \/ \E f \in FocalChoices : SetFocalPoint(f) /\ UNCHANGED <<twinVars, radVars, setupVars, linkVars, monVars, tierVars, restVars>>
  \/ \E f \in FocalChoices : SetFocalPoint2(f) /\ UNCHANGED <<radVars, setupVars, linkVars, monVars, tierVars, restVars>>
  \/ \E a \in Alphas : \E t \in Clocks : ForceBoth(a, t) /\ UNCHANGED <<radVars, setupVars, linkVars, monVars, tierVars, restVars>>

SpecFocal == InitFocal /\ [][NextFocal]_vars

\* ------------------------------------------------------------------------
\* calculateOrbitRadius as a function of its inputs
\* ------------------------------------------------------------------------
RadSizes == {0, 2 * PosScale, 5 * PosScale, 10 * PosScale}
RadValues == {-100, 0, 50, 100, 150, 200, 300, 400, 500, 700, 3000}

\* calculateOrbitRadius(parent, node, linkValue) for sizes kept from Init
CalcRadius(v) ==
  /\ rad' = [called |-> TRUE, parentSize |-> rad.parentSize, nodeSize |-> rad.nodeSize,
             value |-> v,
             radius |-> calculateOrbitRadius([size |-> rad.parentSize],
                                             [size |-> rad.nodeSize], v),
             hasPrev |-> rad.called, prevValue |-> rad.value, prevRadius |-> rad.radius]

InitRadius ==
  /\ InitTwinForce
  /\ hostLinks = <<>>
  /\ InitTwin
  /\ \E ps \in RadSizes : \E ns \in RadSizes :
       rad = [RadIdle EXCEPT !.parentSize = ps, !.nodeSize = ns]
  /\ InitSetup
  /\ InitLink
  /\ InitMonitor

NextRadius ==
  \E v \in RadValues : CalcRadius(v) /\ UNCHANGED <<forceVars, twinVars, setupVars, linkVars, monVars, tierVars, restVars>>

SpecRadius == InitRadius /\ [][NextRadius]_vars

\* ------------------------------------------------------------------------
\* setupOrbitalPhysics, the tick hook and the host's operations
\* ------------------------------------------------------------------------
SetupThrowsNoHandleOnly(hasHandle, hasSim) ==
  IF ~hasHandle THEN "Force graph reference is required" ELSE "none"

\* The error setupOrbitalPhysics throws before it installs anything
SetupThrows(hasHandle, hasSim) ==
  IF ~hasHandle THEN "Force graph reference is required"
  ELSE IF ~hasSim THEN "Simulation not available from force graph"
  ELSE "none"

\* setupOrbitalPhysics(forceGraph, orbitalStrength): hasHandle says whether
\* forceGraph is given, hasSim whether forceGraph.d3Force() returns a simulation
Setup(hasHandle, hasSim, s) ==
  LET error == SetupThrows(hasHandle, hasSim)
      id == instances + 1
  IN /\ instances < MaxSetups
     /\ lastOp' = [op |-> "setup", threw |-> error # "none", error |-> error,
                   hasHandle |-> hasHandle, hasSim |-> hasSim,
                   preSlot |-> orbitalSlot, preHooks |-> tickHooks,
                   preInstances |-> instances,
                   preBind |-> [nodes |-> OwnEmpty, links |-> OwnEmpty]]
     /\ IF error # "none"
          THEN UNCHANGED <<orbitalSlot, tickHooks, instances, bind>>
          ELSE /\ instances' = id
               /\ bind' = [bind EXCEPT ![id] =
                             [FreshBinding EXCEPT !.strength = StrengthCall(1, <<s>>)]]
               /\ orbitalSlot' = id
               /\ tickHooks' = tickHooks + 1
     /\ UNCHANGED <<fgLinks, simNodes, arrays>>

HookKeepsNodes(cur, ns, ls) == [cur EXCEPT !.links = ls]

\* orbitalForce.initialize(simulation.nodes(), links) on the installed force
HookBinding(cur, ns, ls) == [cur EXCEPT !.nodes = ns, !.links = ls]

\* One 'tick' notification of the simulation: every registered listener runs
\* (the listeners are identical closures over forceGraph and simulation)
Tick ==
  /\ lastOp' = [NoOp EXCEPT !.op = "tick", !.preSlot = orbitalSlot,
                !.preHooks = tickHooks, !.preInstances = instances,
                !.preBind = IF orbitalSlot # NoForce
                              THEN [nodes |-> bind[orbitalSlot].nodes,
                                    links |-> bind[orbitalSlot].links]
                              ELSE [nodes |-> OwnEmpty, links |-> OwnEmpty]]
  /\ bind' = IF tickHooks > 0 /\ orbitalSlot # NoForce /\ fgLinks # OwnEmpty
               THEN [bind EXCEPT ![orbitalSlot] = HookBinding(@, simNodes, fgLinks)]
               ELSE bind
  /\ UNCHANGED <<fgLinks, simNodes, arrays, orbitalSlot, tickHooks, instances>>

\* simulation.force('orbital', null): the component's effect cleanup
RemoveForce ==
  /\ orbitalSlot # NoForce
  /\ orbitalSlot' = NoForce
  /\ lastOp' = NoOp
  /\ UNCHANGED <<fgLinks, simNodes, arrays, tickHooks, instances, bind>>

\* The host replaces its node array (new graph data)
ReplaceNodes ==
  /\ arrays < MaxArrays + 2
  /\ arrays' = arrays + 1
  /\ simNodes' = arrays + 1
  /\ lastOp' = NoOp
  /\ UNCHANGED <<fgLinks, orbitalSlot, tickHooks, instances, bind>>

\* The host replaces its link array (new graph data)
ReplaceLinks ==
  /\ arrays < MaxArrays + 2
  /\ arrays' = arrays + 1
  /\ fgLinks' = arrays + 1
  /\ lastOp' = NoOp
  /\ UNCHANGED <<simNodes, orbitalSlot, tickHooks, instances, bind>>

InitSetupSpec ==
  /\ InitTwinForce
  /\ hostLinks = <<>>
  /\ InitTwin
  /\ InitRadIdle
  /\ InitSetup
  /\ InitLink
  /\ InitMonitor

NextSetup ==
  \/ \E h \in BOOLEAN : \E m \in BOOLEAN : \E s \in Strengths :
       Setup(h, m, s) /\ UNCHANGED <<forceVars, twinVars, radVars, linkVars, monVars, tierVars, restVars>>
  \/ Tick /\ UNCHANGED <<forceVars, twinVars, radVars, linkVars, monVars, tierVars, restVars>>
  \/ RemoveForce /\ UNCHANGED <<forceVars, twinVars, radVars, linkVars, monVars, tierVars, restVars>>
  \/ ReplaceNodes /\ UNCHANGED <<forceVars, twinVars, radVars, linkVars, monVars, tierVars, restVars>>
  \/ ReplaceLinks /\ UNCHANGED <<forceVars, twinVars, radVars, linkVars, monVars, tierVars, restVars>>

SpecSetup == InitSetupSpec /\ [][NextSetup]_vars

\* ------------------------------------------------------------------------
\* Link renderables and their particle budget
\* ------------------------------------------------------------------------
\* The switch of initLinkResources
MaxParticlesFor(detail) ==
  IF detail = "high" THEN MaxParticlesHigh
  ELSE IF detail = "medium" THEN MaxParticlesMedium
  ELSE MaxParticlesLow

\* The pool after initLinkResources(detail)
InitializedPool(pool, detail) ==
  IF pool.exists THEN pool
  ELSE [exists |-> TRUE, detail |-> detail, maxParticles |-> MaxParticlesFor(detail)]

FloorTimes2(v) == (2 * v) \div PosScale

\* Math.ceil(link.value * 2)
CeilTimes2(v) == -((-(2 * v)) \div PosScale)

\* particleCount of createLinkObject
ParticleCount(v, pool) ==
  LET maxParticles == IF pool.maxParticles # 0 THEN pool.maxParticles
                      ELSE MaxParticlesFallback
  IN Min(CeilTimes2(v), maxParticles)

\* initLinkResources(detail)
InitLinkResources(detail) ==
  /\ linkPool' = InitializedPool(linkPool, detail)
  /\ lastUpdate' = NoUpdate
  /\ UNCHANGED <<linkObj, psys, ends>>

\* disposeLinkResources()
DisposeLinkResources ==
  /\ linkPool' = NoPool
  /\ lastUpdate' = NoUpdate
  /\ UNCHANGED <<linkObj, psys, ends>>

Vec(a, b, c) == [x |-> a, y |-> b, z |-> c]

\* Math.sqrt(dir.x * dir.x + dir.y * dir.y + dir.z * dir.z)
Length3(d) == Sqrt(d.x * d.x + d.y * d.y + d.z * d.z)

\* target - source, componentwise
Diff3(source, target) ==
  Vec(target.x - source.x, target.y - source.y, target.z - source.z)

\* createParticleSystem: rnd[i] is the i-th Math.random() result
CreateParticleSystem(source, target, speed, count, rnd) ==
  LET d == Diff3(source, target)
  IN [exists |-> TRUE, count |-> count, speed |-> speed, length |-> Length3(d),
      dir |-> Vec((d.x * TrigScale) \div PosScale, (d.y * TrigScale) \div PosScale,
                  (d.z * TrigScale) \div PosScale),
      offsets |-> [i \in 1..count |-> rnd[i]],
      positions |-> [i \in 1..count |->
                      Vec(source.x + RDiv(d.x * rnd[i], OffDen),
                          source.y + RDiv(d.y * rnd[i], OffDen),
                          source.z + RDiv(d.z * rnd[i], OffDen))]]

WithParticlesNonNegative(showParticles, v) == showParticles /\ v >= 0

\* if (showParticles && link.value > 0)
WithParticles(showParticles, v) == showParticles /\ v > 0

\* createLinkObject(link, showParticles, particleSpeed): v is link.value,
\* link.source and link.target are node objects or bare ids
CreateLinkObject(v, showParticles, particleSpeed, link, rnd) ==
  LET pool == InitializedPool(linkPool, "medium")
      withParticles == WithParticles(showParticles, v)
      source == IF link.sourceObj THEN link.source ELSE Zero3
      target == IF link.targetObj THEN link.target ELSE Zero3
      count == ParticleCount(v, pool)
  IN /\ linkPool' = pool
     /\ linkObj' = [created |-> TRUE, value |-> v, showParticles |-> showParticles,
                    hasParticles |-> withParticles,
                    count |-> IF withParticles THEN count ELSE 0,
                    hasUpdate |-> withParticles,
                    poolDetail |-> pool.detail]
     /\ psys' = IF withParticles
                  THEN CreateParticleSystem(source, target, particleSpeed, count, rnd)
                  ELSE NoParticles
     /\ ends' = [source |-> source, target |-> target,
                 sourceObj |-> link.sourceObj, targetObj |-> link.targetObj]
     /\ lastUpdate' = NoUpdate

AdvanceNoWrap(o, speed) == o + speed

\* offsets[i] += speed; if (offsets[i] > 1) offsets[i] -= 1
Advance(o, speed) ==
  LET sum == o + speed
  IN IF sum > OffDen THEN sum - OffDen ELSE sum

ZeroLengthAdvances(ps) ==
  [ps EXCEPT !.offsets = [i \in 1..ps.count |-> Advance(ps.offsets[i], ps.speed)]]

\* if (length === 0) return
ZeroLengthResult(ps) == ps

\* updateParticles(particleSystem, source, target)
UpdateParticles(ps, source, target) ==
  LET d == Diff3(source, target)
      length == Length3(d)
  IN IF length = 0 THEN ZeroLengthResult(ps)
     ELSE LET dir == Vec(RDiv(d.x * TrigScale, length), RDiv(d.y * TrigScale, length),
                         RDiv(d.z * TrigScale, length))
              offsets == [i \in 1..ps.count |-> Advance(ps.offsets[i], ps.speed)]
          IN [ps EXCEPT
                !.dir = dir,
                !.length = length,
                !.offsets = offsets,
                !.positions = [i \in 1..ps.count |->
                  Vec(source.x + RDiv(dir.x * length * offsets[i], TrigScale * OffDen),
                      source.y + RDiv(dir.y * length * offsets[i], TrigScale * OffDen),
                      source.z + RDiv(dir.z * length * offsets[i], TrigScale * OffDen))]]

\* updateLinkObjects(scene): the scene holds the renderable once it is created
UpdateLinkObjects(hasScene) ==
  /\ lastUpdate.updates < MaxUpdates
  /\ lastUpdate' = [called |-> TRUE, hasScene |-> hasScene, pre |-> psys,
                    updates |-> lastUpdate.updates + 1]
  /\ psys' = IF hasScene /\ linkObj.created /\ linkObj.hasUpdate
               THEN UpdateParticles(psys, ends.source, ends.target)
               ELSE psys
  /\ UNCHANGED <<linkPool, linkObj, ends>>

\* The simulation moves an endpoint that is a node object
MoveNode(sourceSide, p) ==
  /\ linkObj.created
  /\ IF sourceSide THEN ends.sourceObj /\ ends.source # p
                   ELSE ends.targetObj /\ ends.target # p
  /\ ends' = IF sourceSide THEN [ends EXCEPT !.source = p] ELSE [ends EXCEPT !.target = p]
  /\ lastUpdate' = [NoUpdate EXCEPT !.updates = lastUpdate.updates]
  /\ UNCHANGED <<linkPool, linkObj, psys>>

Points == {Vec(0, 0, 0), Vec(300, 400, 0), Vec(100, 100, 100)}

\* link.source / link.target: some node objects, or bare ids
LinkEnds ==
  {[source |-> a, target |-> b, sourceObj |-> TRUE, targetObj |-> TRUE] :
     a \in Points, b \in Points}
  \cup {[source |-> Vec(100, 100, 100), target |-> Vec(300, 400, 0),
         sourceObj |-> so, targetObj |-> to] : so \in BOOLEAN, to \in BOOLEAN}

FixedEnds ==
  {[source |-> Vec(0, 0, 0), target |-> Vec(300, 400, 0),
    sourceObj |-> TRUE, targetObj |-> TRUE]}

Speeds == {2, 10}

OffsetChoices == {0, 10, 19}

\* Math.random() results for a small particle system
Randoms == [1..MaxRandoms -> OffsetChoices]

\* Math.random() results spread along the segment, for any particle count
SpreadRandoms == {[i \in 1..MaxParticlesHigh |-> (7 * i) % OffDen]}

ParticleValues == {-100, 0, 50, 100}

LinkValueChoices == {-100, 0, 30, 50, 100, 300, 1200, 1250, 1260, 2000, 2500, 2510, 3000}

InitLinkSpec ==
  /\ InitTwinForce
  /\ hostLinks = <<>>
  /\ InitTwin
  /\ InitRadIdle
  /\ InitSetup
  /\ InitLink
  /\ InitMonitor

NextLink ==
  \/ \E d \in Details :
       InitLinkResources(d) /\ UNCHANGED <<forceVars, twinVars, radVars, setupVars, monVars, tierVars, restVars>>
  \/ DisposeLinkResources /\ UNCHANGED <<forceVars, twinVars, radVars, setupVars, monVars, tierVars, restVars>>
  \/ \E v \in LinkValueChoices : \E sp \in BOOLEAN :
     \E e \in FixedEnds : \E rnd \in SpreadRandoms :
       CreateLinkObject(v, sp, 2, e, rnd)
         /\ UNCHANGED <<forceVars, twinVars, radVars, setupVars, monVars, tierVars, restVars>>

SpecLink == InitLinkSpec /\ [][NextLink]_vars

\* One renderable is followed from its creation through moves and updates
NextParticles ==
  \/ \E v \in ParticleValues : \E sp \in BOOLEAN : \E speed \in Speeds :
     \E e \in LinkEnds : \E rnd \in Randoms :
       ~linkObj.created /\ CreateLinkObject(v, sp, speed, e, rnd)
         /\ UNCHANGED <<forceVars, twinVars, radVars, setupVars, monVars, tierVars, restVars>>
  \/ \E b \in BOOLEAN : \E p \in Points :
       MoveNode(b, p) /\ UNCHANGED <<forceVars, twinVars, radVars, setupVars, monVars, tierVars, restVars>>
  \/ \E hasScene \in BOOLEAN :
       UpdateLinkObjects(hasScene) /\ UNCHANGED <<forceVars, twinVars, radVars, setupVars, monVars, tierVars, restVars>>

SpecParticles == InitLinkSpec /\ [][NextParticles]_vars

\* ------------------------------------------------------------------------
\* PerformanceMonitor: startMonitoring, stopMonitoring, the sampling function
\* ------------------------------------------------------------------------
\* The monitor together with the host's frame requests, threaded through the
\* statements of one operation
MonState ==
  [pm |-> pm, hist |-> memoryHistory, pending |-> rafPending, next |-> rafNext,
   recorded |-> monLog.recorded, reentered |-> monLog.reentered,
   cbCalls |-> 0, cbValue |-> 0, runs |-> 0]

\* stopMonitoring()
StopMonitoringOp(st) ==
  [st EXCEPT !.pending = IF st.pm.rafId # NoRaf THEN @ \ {st.pm.rafId} ELSE @,
             !.pm = [@ EXCEPT !.rafId = NoRaf, !.tracking = FALSE]]

\* startMonitoring(callback, interval) at performance.now() = time
StartMonitoringOp(st, callback, interval, time) ==
  LET s1 == IF st.pm.tracking THEN StopMonitoringOp(st) ELSE st
  IN [s1 EXCEPT !.pm = [@ EXCEPT !.callback = callback, !.interval = interval,
                                 !.frames = 0, !.lastTime = time,
                                 !.tracking = TRUE, !.rafId = s1.next],
                !.pending = @ \cup {s1.next},
                !.next = @ + 1]

RecordMemoryDropNewest(hist, time, serial) ==
  LET pushed == Append(hist, [time |-> time, memory |-> serial])
  IN IF Len(pushed) > HistoryCap THEN SubSeq(pushed, 1, Len(pushed) - 1) ELSE pushed

\* memoryHistory.push(...); if (memoryHistory.length > 60) memoryHistory.shift()
RecordMemory(hist, time, serial) ==
  LET pushed == Append(hist, [time |-> time, memory |-> serial])
  IN IF Len(pushed) > HistoryCap THEN Tail(pushed) ELSE pushed

\* this.callback(this.fps): a callback may call back into the monitor
InvokeCallback(st, time) ==
  LET called == [st EXCEPT !.cbCalls = @ + 1, !.cbValue = st.pm.fps]
  IN IF st.pm.callback = "stops"
       THEN [StopMonitoringOp(called) EXCEPT !.reentered = TRUE]
     ELSE IF st.pm.callback = "restarts"
       THEN [StartMonitoringOp(called, "plain", st.pm.interval, time)
               EXCEPT !.reentered = TRUE]
     ELSE called

\* if (elapsed >= this.interval)
WindowCloses(elapsed, interval) == elapsed >= interval

\* One run of updateFPS at performance.now() = time
UpdateFPS(st, time, mem) ==
  LET s1 == [st EXCEPT !.pm.frames = @ + 1, !.runs = @ + 1]
      elapsed == time - s1.pm.lastTime
      s2 == [s1 EXCEPT !.pm.fps = RDiv(s1.pm.frames * MsPerSecond, elapsed)]
      s3 == IF mem
              THEN [s2 EXCEPT !.hist = RecordMemory(@, time, s2.recorded + 1),
                              !.recorded = @ + 1]
              ELSE s2
      s4 == IF s3.pm.callback # "none" THEN InvokeCallback(s3, time) ELSE s3
      s5 == [s4 EXCEPT !.pm.frames = 0, !.pm.lastTime = time]
      s6 == IF WindowCloses(elapsed, s1.pm.interval) THEN s5 ELSE s1
  IN [s6 EXCEPT !.pm.rafId = s6.next, !.pending = @ \cup {s6.next}, !.next = @ + 1]

MinOf(S) == CHOOSE a \in S : \A b \in S : a <= b

\* The host runs the frame requests that were pending when the frame began,
\* in request order, skipping those cancelled in the meantime
RECURSIVE RunFrame(_, _, _, _)
RunFrame(st, todo, time, mem) ==
  IF todo = {} THEN st
  ELSE LET id == MinOf(todo)
       IN IF id \in st.pending
            THEN RunFrame(UpdateFPS([st EXCEPT !.pending = @ \ {id}], time, mem),
                          todo \ {id}, time, mem)
            ELSE RunFrame(st, todo \ {id}, time, mem)

QualityLowInclusive(fps) ==
  IF fps <= LowBelow THEN "low" ELSE IF fps < MediumBelow THEN "medium" ELSE "high"

\* getRecommendedQualityLevel()
getRecommendedQualityLevel(fps) ==
  IF fps < LowBelow THEN "low" ELSE IF fps < MediumBelow THEN "medium" ELSE "high"

\* The monitor's variables after an operation that ended in state st
Commit(st, op, level) ==
  /\ pm' = st.pm
  /\ memoryHistory' = st.hist
  /\ rafPending' = st.pending
  /\ rafNext' = st.next
  /\ monLog' = [last |-> [op |-> op, pre |-> pm, cbCalls |-> st.cbCalls,
                          cbValue |-> st.cbValue, runs |-> st.runs, level |-> level],
                recorded |-> st.recorded,
                starts |-> IF op = "start" THEN monLog.starts + 1 ELSE monLog.starts,
                reentered |-> st.reentered]

\* startMonitoring(callback, interval)
StartMonitoring(callback, interval) ==
  /\ monLog.starts < MaxStarts
  /\ Commit(StartMonitoringOp(MonState, callback, interval, clock), "start", "none")
  /\ UNCHANGED <<clock, memAvail>>

\* stopMonitoring()
StopMonitoring ==
  /\ Commit(StopMonitoringOp(MonState), "stop", "none")
  /\ UNCHANGED <<clock, memAvail>>

\* The host renders a frame dt milliseconds after the previous one
Frame(dt, maxNow) ==
  /\ clock + dt <= maxNow
  /\ clock' = clock + dt
  /\ Commit(RunFrame(MonState, rafPending, clock + dt, memAvail), "frame", "none")
  /\ UNCHANGED memAvail

\* getRecommendedQualityLevel()
RecommendQuality ==
  /\ Commit(MonState, "quality", getRecommendedQualityLevel(pm.fps))
  /\ UNCHANGED <<clock, memAvail>>

Intervals == {100, 200}
FrameGaps == {25, 50, 100}

\* A host without memory telemetry
InitMonitorSpec ==
  /\ InitTwinForce
  /\ hostLinks = <<>>
  /\ InitTwin
  /\ InitRadIdle
  /\ InitSetup
  /\ InitLink
  /\ InitMonitor

\* A host with or without memory telemetry
InitHistorySpec ==
  /\ InitTwinForce
  /\ hostLinks = <<>>
  /\ InitTwin
  /\ InitRadIdle
  /\ InitSetup
  /\ InitLink
  /\ InitTier
  /\ InitRest
  /\ pm = NewMonitor
  /\ memoryHistory = <<>>
  /\ rafPending = {}
  /\ rafNext = 1
  /\ clock = 0
  /\ memAvail \in BOOLEAN
  /\ monLog = [last |-> NoMonOp, recorded |-> 0, starts |-> 0, reentered |-> FALSE]

NextMonitor ==
  \/ \E cb \in Callbacks : \E i \in Intervals :
       StartMonitoring(cb, i) /\ UNCHANGED <<forceVars, twinVars, radVars, setupVars, linkVars, tierVars, restVars>>
  \/ StopMonitoring /\ UNCHANGED <<forceVars, twinVars, radVars, setupVars, linkVars, tierVars, restVars>>
  \/ \E dt \in FrameGaps :
       Frame(dt, MaxNow) /\ UNCHANGED <<forceVars, twinVars, radVars, setupVars, linkVars, tierVars, restVars>>
  \/ RecommendQuality /\ UNCHANGED <<forceVars, twinVars, radVars, setupVars, linkVars, tierVars, restVars>>

SpecMonitor == InitMonitorSpec /\ [][NextMonitor]_vars

\* Long runs at one frame per window, to fill the memory history
NextHistory ==
  \/ StartMonitoring("plain", 100)
       /\ UNCHANGED <<forceVars, twinVars, radVars, setupVars, linkVars, tierVars, restVars>>
  \/ StopMonitoring /\ UNCHANGED <<forceVars, twinVars, radVars, setupVars, linkVars, tierVars, restVars>>
  \/ (pm.tracking \/ monLog.starts = 1) /\ Frame(100, MaxHistoryNow)
       /\ UNCHANGED <<forceVars, twinVars, radVars, setupVars, linkVars, tierVars, restVars>>

SpecHistory == InitHistorySpec /\ [][NextHistory]_vars

\* ------------------------------------------------------------------------
\* Quality tiers
\* ------------------------------------------------------------------------
getResolutionSwapped(detail, base) ==
  IF detail = "high" THEN base
  ELSE IF detail = "medium" THEN Max(MinSegmentsMedium, (base * 5) \div 10)
  ELSE Max(MinSegmentsLow, (base * 7) \div 10)

\* getResolution(base) of initNodeResources(detail)
getResolution(detail, base) ==
  IF detail = "high" THEN base
  ELSE IF detail = "medium" THEN Max(MinSegmentsMedium, (base * 7) \div 10)
  ELSE Max(MinSegmentsLow, (base * 5) \div 10)

\* The particleSize argument of linkThreeObject, in 1/PosScale units
ParticleSizeFor(capability) ==
  IF capability = "low" THEN PosScale
  ELSE IF capability = "medium" THEN (3 * PosScale) \div 2
  ELSE 2 * PosScale

\* The settings a tier gives for a sphere of the given base resolution
ApplyTier(detail, base) ==
  tier' = [called |-> TRUE, detail |-> detail, base |-> base,
           segments |-> getResolution(detail, base),
           maxParticles |-> MaxParticlesFor(detail),
           particleSize |-> ParticleSizeFor(detail)]

Bases == 1..MaxBase

InitTierSpec ==
  /\ InitTwinForce
  /\ hostLinks = <<>>
  /\ InitTwin
  /\ InitRadIdle
  /\ InitSetup
  /\ InitLink
  /\ InitMonitor

NextTier ==
  \E d \in Details : \E b \in Bases :
    ApplyTier(d, b)
      /\ UNCHANGED <<forceVars, twinVars, radVars, setupVars, linkVars, monVars, restVars>>

SpecTier == InitTierSpec /\ [][NextTier]_vars

\* ------------------------------------------------------------------------
\* Orbital slots (OrbitalForce.ts, lines 61-76)
\* ------------------------------------------------------------------------
\* Two nodes of one kind and size orbiting one parent over links of one value
SlotParent == [size |-> 5 * PosScale, x |-> 0, y |-> 0, z |-> 0]
SlotNode(kind) == [type |-> kind, size |-> 2 * PosScale]
SlotValue == 5 * PosScale
SlotClocks == 0..3

\* The plane and the phase lines 67 and 73 derive from a node index
PlaneOf(nodeIndex) == (nodeIndex % PlaneCount) * PlaneStep + PlaneBase
PhaseOf(nodeIndex) == (nodeIndex * PhaseStep) % TurnSteps

\* Lines 61-76 for both nodes in one force(alpha) call at Date.now() = now
ComputeTargets(now) ==
  slot' = [slot EXCEPT
             !.called = TRUE,
             !.now = now,
             !.targetFirst = Target(SlotParent, SlotNode(slot.kind), slot.first, 1,
                                    SlotValue, now),
             !.targetSecond = Target(SlotParent, SlotNode(slot.kind), slot.second, 1,
                                     SlotValue, now)]

\* Every part of the state modelled above, idle
InitIdle ==
  /\ InitTwinForce
  /\ hostLinks = <<>>
  /\ InitTwin
  /\ InitRadIdle
  /\ InitSetup
  /\ InitLink
  /\ InitTier
  /\ pm = NewMonitor
  /\ memoryHistory = <<>>
  /\ rafPending = {}
  /\ rafNext = 1
  /\ clock = 0
  /\ memAvail = FALSE
  /\ monLog = [last |-> NoMonOp, recorded |-> 0, starts |-> 0, reentered |-> FALSE]

InitSlotSpec ==
  /\ InitIdle
  /\ \E k \in {"leaf", "branch"} : \E i \in 0..MaxIndex : \E j \in 0..MaxIndex :
       /\ i < j
       /\ slot = [NoSlot EXCEPT !.kind = k, !.first = i, !.second = j]
  /\ InitValid
  /\ InitResources
  /\ InitComponent

NextSlot ==
  \E t \in SlotClocks :
    ComputeTargets(t)
      /\ UNCHANGED <<forceVars, twinVars, radVars, setupVars, linkVars, monVars, tierVars, validVars, resVars, compVars>>

SpecSlot == InitSlotSpec /\ [][NextSlot]_vars

\* ------------------------------------------------------------------------
\* validateEcosystemData (part_003, lines 9-102)
\* ------------------------------------------------------------------------
\* Denominator of success values: 10 stands for 1
SuccessDen == 10

\* typeof a === 'number'
TypeofNumber(a) == a.t \in {"number", "nan"}

\* a < k and a > k on numbers: both false for NaN
NumLess(a, k) == a.t = "number" /\ a.v < k
NumGreater(a, k) == a.t = "number" /\ a.v > k

\* typeof node.size !== 'number' || node.size <= 0
SizeInvalid(size) == ~TypeofNumber(size) \/ NumLess(size, 1)

\* The error of the first failing check of a reserve, "none" if it passes
ReserveError(reserve) ==
  IF ~reserve.tokenId THEN "reserve tokenId"
  ELSE IF \/ ~TypeofNumber(reserve.percentage)
          \/ NumLess(reserve.percentage, 0)
          \/ NumGreater(reserve.percentage, MaxPercentage)
    THEN "reserve percentage"
  ELSE "none"

\* forEach with a throwing callback, given what the callback does on each
\* element: the error of the first element that fails, "none" if all pass
FirstError(errors) ==
  IF \A i \in 1..Len(errors) : errors[i] = "none" THEN "none"
  ELSE errors[CHOOSE i \in 1..Len(errors) :
                /\ errors[i] # "none"
                /\ \A j \in 1..(i - 1) : errors[j] = "none"]

\* The error of the first failing check of a node (lines 25-68)
NodeError(nd) ==
  IF nd.id = "" THEN "node id"
  ELSE IF ~nd.name THEN "node name"
  ELSE IF nd.type \notin {"root", "branch", "leaf"} THEN "node type"
  ELSE IF SizeInvalid(nd.size) THEN "node size"
  ELSE IF ~nd.color THEN "node color"
  ELSE IF \/ ~TypeofNumber(nd.success)
          \/ NumLess(nd.success, 0)
          \/ NumGreater(nd.success, SuccessDen)
    THEN "node success"
  ELSE IF ~nd.reserves.isArray THEN "node reserves"
  ELSE FirstError([i \in 1..Len(nd.reserves.items) |-> ReserveError(nd.reserves.items[i])])

\* !link.source, !link.target: an absent end or an empty string
EndMissing(e) == e.t = "missing" \/ (e.t = "string" /\ e.id = "")

\* typeof e === 'string' ? e : e.id
EndIdOf(e) == e.id

\* data.nodes.some(node => node.id === id)
NodeExists(graphNodes, id) == \E i \in 1..Len(graphNodes) : graphNodes[i].id = id

\* The error of the first failing check of a link (lines 72-97)
LinkError(graphNodes, link) ==
  IF EndMissing(link.source) THEN "link source"
  ELSE IF EndMissing(link.target) THEN "link target"
  ELSE IF ~TypeofNumber(link.value) \/ NumLess(link.value, 0) THEN "link value"
  ELSE IF ~NodeExists(graphNodes, EndIdOf(link.source)) THEN "link source node"
  ELSE IF ~NodeExists(graphNodes, EndIdOf(link.target)) THEN "link target node"
  ELSE "none"

\* The error validateEcosystemData(data) throws, "none" if it returns data
ValidationError(data) ==
  IF data.isNull THEN "data"
  ELSE IF ~data.nodes.isArray THEN "nodes array"
  ELSE IF ~data.links.isArray THEN "links array"
  ELSE LET ns == data.nodes.items
           ls == data.links.items
           nodeError == FirstError([i \in 1..Len(ns) |-> NodeError(ns[i])])
       IN IF nodeError # "none" THEN nodeError
          ELSE FirstError([k \in 1..Len(ls) |-> LinkError(ns, ls[k])])

\* validateEcosystemData(data) for the data chosen at Init
ValidateEcosystemData ==
  /\ ~valid.called
  /\ valid' = [valid EXCEPT !.called = TRUE,
                            !.threw = ValidationError(valid.data) # "none",
                            !.error = ValidationError(valid.data)]

\* A node that passes every check
GoodNode(id, type) ==
  [id |-> id, name |-> TRUE, type |-> type, size |-> Num(5), color |-> TRUE,
   success |-> Num(5), reserves |-> Arr(<<>>)]

Reserve(tokenId, percentage) == [tokenId |-> tokenId, percentage |-> percentage]

\* Nodes: the passing ones, and nodes that differ from a passing one in one field
GraphNodeChoices ==
  LET g == GoodNode("a", "leaf")
  IN {GoodNode(i, t) : i \in {"a", "b"}, t \in {"root", "branch", "leaf"}}
       \cup {[g EXCEPT !.id = ""], [g EXCEPT !.name = FALSE], [g EXCEPT !.type = "planet"],
              [g EXCEPT !.color = FALSE], [g EXCEPT !.reserves = NotArray]}
       \cup {[g EXCEPT !.size = v] : v \in {Num(-1), Num(0), Num(1), NaN, NotNumber}}
       \cup {[g EXCEPT !.success = v] :
                v \in {Num(-1), Num(0), Num(SuccessDen), Num(SuccessDen + 1), NaN, NotNumber}}
       \cup {[g EXCEPT !.reserves = Arr(<<r>>)] :
                r \in {Reserve(FALSE, Num(50)), Reserve(TRUE, Num(-1)), Reserve(TRUE, Num(0)),
                       Reserve(TRUE, Num(MaxPercentage)), Reserve(TRUE, Num(MaxPercentage + 1)),
                       Reserve(TRUE, NotNumber)}}

\* Link ends: an id string, a node object with an id, or nothing
GraphEndChoices ==
  {[t |-> "string", id |-> i] : i \in {"", "a", "c"}}
    \cup {[t |-> "object", id |-> i] : i \in {"b", "c"}}
    \cup {[t |-> "missing", id |-> ""]}

GraphLinkChoices ==
  {[source |-> a, target |-> b, value |-> v] :
     a \in GraphEndChoices, b \in GraphEndChoices,
     v \in {Num(-1), Num(0), Num(5), NotNumber}}

GraphChoices ==
  {NullData}
    \cup {[isNull |-> FALSE, nodes |-> NotArray, links |-> Arr(<<>>)],
           [isNull |-> FALSE, nodes |-> Arr(<<>>), links |-> NotArray]}
    \cup {[isNull |-> FALSE, nodes |-> Arr(ns), links |-> Arr(ls)] :
            ns \in SeqsUpTo(GraphNodeChoices, MaxGraphNodes),
            ls \in SeqsUpTo(GraphLinkChoices, MaxGraphLinks)}

InitValidSpec ==
  /\ InitIdle
  /\ InitSlot
  /\ InitResources
  /\ InitComponent
  /\ \E d \in GraphChoices : valid = [NoValidation EXCEPT !.data = d]

NextValid ==
  ValidateEcosystemData
    /\ UNCHANGED <<forceVars, twinVars, radVars, setupVars, linkVars, monVars, tierVars, slotVars, resVars, compVars>>

SpecValid == InitValidSpec /\ [][NextValid]_vars

\* ------------------------------------------------------------------------
\* ResourceManager (ResourceManager.ts, lines 6-121)
\* ------------------------------------------------------------------------
\* object.dispose() on each object of the set called
DisposeEach(counts, called) ==
  [o \in ResourceObjects |-> IF o \in called THEN counts[o] + 1 ELSE counts[o]]

\* addGeometry, addMaterial, addTexture (name, object):
\* if (map.has(name)) map.get(name)?.dispose(); map.set(name, object)
AddResource(kind, name, object) ==
  /\ adds < MaxAdds
  /\ LET previous == registry[kind][name]
     IN /\ previous # NoObject => disposals[kind][previous] < MaxDisposals
        /\ disposals' = [disposals EXCEPT ![kind] =
                           IF previous # NoObject THEN DisposeEach(@, {previous}) ELSE @]
  /\ registry' = [registry EXCEPT ![kind][name] = object]
  /\ adds' = adds + 1

\* The number of map entries of a kind that hold the object
Entries(kind, object) == Cardinality({n \in ResourceNames : registry[kind][n] = object})

\* dispose(): dispose every value of every map, then clear the maps
DisposeResources ==
  /\ \A k \in ResourceKinds : \A o \in ResourceObjects :
       disposals[k][o] + Entries(k, o) <= MaxDisposals
  /\ disposals' = [k \in ResourceKinds |->
                     [o \in ResourceObjects |-> disposals[k][o] + Entries(k, o)]]
  /\ registry' = [k \in ResourceKinds |-> [n \in ResourceNames |-> NoObject]]
  /\ UNCHANGED adds

InitResourcesSpec ==
  /\ InitIdle
  /\ InitSlot
  /\ InitValid
  /\ InitResources
  /\ InitComponent

NextResources ==
  \/ \E k \in ResourceKinds : \E n \in ResourceNames : \E o \in ResourceObjects :
       AddResource(k, n, o)
         /\ UNCHANGED <<forceVars, twinVars, radVars, setupVars, linkVars, monVars, tierVars, slotVars, validVars, compVars>>
  \/ DisposeResources
       /\ UNCHANGED <<forceVars, twinVars, radVars, setupVars, linkVars, monVars, tierVars, slotVars, validVars, compVars>>

SpecResources == InitResourcesSpec /\ [][NextResources]_vars

\* ------------------------------------------------------------------------
\* GravitalVisualization: tier adoption, resource pools, particle loop
\* ------------------------------------------------------------------------
\* Program constants of the FPS callback (GravitalVisualization.tsx)
AdoptLowBelow == 20
AdoptMediumBelow == 40
RootBase == 32

\* The tier the FPS callback adopts (lines 195-201)
AdoptedTier(fps) ==
  IF fps < AdoptLowBelow THEN "low"
  ELSE IF fps < AdoptMediumBelow THEN "medium"
  ELSE "high"

\* The identity a newly constructed pool object gets: one that differs from
\* the pool object constructed before it
FreshId(pid) == IF pid.last = 1 THEN 2 ELSE 1

\* A variant that constructs a new ResourceManager on every call
PoolIdRebuilt(exists, pid) == [cur |-> FreshId(pid), last |-> FreshId(pid)]

\* if (resourceManager) return resourceManager;
\* resourceManager = new ResourceManager()
PoolIdAfterInit(exists, pid) ==
  IF exists THEN pid ELSE [cur |-> FreshId(pid), last |-> FreshId(pid)]

\* resourceManager = null
PoolIdAfterDispose(pid) == [pid EXCEPT !.cur = 0]

\* The node pool after initNodeResources(detail)
NodePoolAfterInit(pool, detail) ==
  IF pool.exists THEN pool
  ELSE [exists |-> TRUE, detail |-> detail,
        rootSegments |-> getResolution(detail, RootBase)]

\* The component's state as the statements of one operation pass it along
CompState ==
  [isMounted |-> isMounted, isVisible |-> isVisible,
   deviceCapability |-> deviceCapability, showValueFlow |-> showValueFlow,
   alive |-> alive, hasGraph |-> hasGraph, refSeen |-> refSeen,
   monitoring |-> monitoring, resActive |-> resActive, animActive |-> animActive,
   requestRef |-> requestRef, animPending |-> animPending,
   nodePool |-> nodePool, linkPool |-> linkPool, poolId |-> poolId,
   init |-> NoInitCall]

\* initNodeResources(detail); initLinkResources(detail)
InitBothPools(st, detail) ==
  [st EXCEPT
     !.init = [called |-> TRUE, detail |-> detail, nodePool |-> st.nodePool,
               linkPool |-> st.linkPool, poolId |-> st.poolId],
     !.nodePool = NodePoolAfterInit(@, detail),
     !.linkPool = InitializedPool(@, detail),
     !.poolId = [node |-> PoolIdAfterInit(st.nodePool.exists, @.node),
                 link |-> PoolIdAfterInit(st.linkPool.exists, @.link)]]

\* disposeNodeResources(); disposeLinkResources()
DisposeBothPools(st) ==
  [st EXCEPT !.nodePool = NoNodePool,
             !.linkPool = NoPool,
             !.poolId = [node |-> PoolIdAfterDispose(@.node),
                         link |-> PoolIdAfterDispose(@.link)]]

\* The resource effect (lines 354-366): its body and its cleanup
ResourceEffect(st) ==
  IF ~st.isMounted \/ ~st.isVisible THEN [st EXCEPT !.resActive = FALSE]
  ELSE [InitBothPools(st, st.deviceCapability) EXCEPT !.resActive = TRUE]

ResourceCleanup(st) == DisposeBothPools(st)

\* The smallest request id not in use
FreshRaf(used) == MinOf((1..(Cardinality(used) + 1)) \ used)

\* requestRef.current = requestAnimationFrame(animate)
RequestAnimate(st) ==
  LET id == FreshRaf(st.animPending \cup {st.requestRef})
  IN [st EXCEPT !.requestRef = id, !.animPending = @ \cup {id}]

\* A variant of the cleanup that forgets the request without cancelling it
ParticleCleanupKeeps(st) == [st EXCEPT !.requestRef = NoRaf]

\* The particle effect's cleanup (lines 481-486)
ParticleCleanup(st) ==
  IF st.requestRef # NoRaf
    THEN [st EXCEPT !.animPending = @ \ {st.requestRef}, !.requestRef = NoRaf]
    ELSE st

\* The particle effect's body (lines 469-479)
ParticleEffect(st) ==
  IF ~st.hasGraph \/ ~st.showValueFlow \/ ~st.isMounted \/ ~st.isVisible
    THEN [st EXCEPT !.animActive = FALSE]
    ELSE [RequestAnimate(st) EXCEPT !.animActive = TRUE]

\* The performance effect (lines 186-224): a monitor runs while the component
\* is mounted and visible
PerformanceEffect(st) == [st EXCEPT !.monitoring = st.isMounted /\ st.isVisible]

\* A render that moves the state from old to new, followed by the commit: the
\* cleanups of the effects whose dependencies changed, then their bodies
Rerender(old, new) ==
  LET resChanged == \/ old.deviceCapability # new.deviceCapability
                    \/ old.isMounted # new.isMounted
                    \/ old.isVisible # new.isVisible
      animChanged == \/ old.refSeen # old.hasGraph
                     \/ old.showValueFlow # new.showValueFlow
                     \/ old.isMounted # new.isMounted
                     \/ old.isVisible # new.isVisible
      s0 == [new EXCEPT !.refSeen = old.hasGraph, !.hasGraph = new.isMounted]
      s1 == IF resChanged /\ s0.resActive THEN ResourceCleanup(s0) ELSE s0
      s2 == IF animChanged /\ s1.animActive THEN ParticleCleanup(s1) ELSE s1
      s3 == IF resChanged THEN PerformanceEffect(s2) ELSE s2
      s4 == IF resChanged THEN ResourceEffect(s3) ELSE s3
  IN IF animChanged THEN ParticleEffect(s4) ELSE s4

\* The component's variables after an operation that ended in state st
CommitComp(st, op, fps) ==
  /\ isMounted' = st.isMounted
  /\ isVisible' = st.isVisible
  /\ deviceCapability' = st.deviceCapability
  /\ showValueFlow' = st.showValueFlow
  /\ alive' = st.alive
  /\ hasGraph' = st.hasGraph
  /\ refSeen' = st.refSeen
  /\ monitoring' = st.monitoring
  /\ resActive' = st.resActive
  /\ animActive' = st.animActive
  /\ requestRef' = st.requestRef
  /\ animPending' = st.animPending
  /\ nodePool' = st.nodePool
  /\ poolId' = st.poolId
  /\ lastComp' = [op |-> op, fps |-> fps, pending |-> animPending, init |-> st.init]

\* The link pool after an operation that ended in state st
CommitLinkPool(st) ==
  /\ linkPool' = st.linkPool
  /\ UNCHANGED <<linkObj, psys, ends, lastUpdate>>

\* The mount effect: setIsMounted(true)
Mount ==
  /\ alive /\ ~isMounted
  /\ LET st == Rerender(CompState, [CompState EXCEPT !.isMounted = TRUE])
     IN CommitComp(st, "mount", 0) /\ CommitLinkPool(st)

\* The intersection observer's callback: setIsVisible(entry.isIntersecting)
SetIsVisible(v) ==
  /\ alive /\ isMounted /\ v # isVisible
  /\ LET st == Rerender(CompState, [CompState EXCEPT !.isVisible = v])
     IN CommitComp(st, "visible", 0) /\ CommitLinkPool(st)

\* The FPS callback of the performance effect, called with fps; setting the
\* state to the value it has causes no render
OnFps(fps) ==
  /\ alive /\ monitoring
  /\ LET st == IF AdoptedTier(fps) = deviceCapability THEN CompState
               ELSE Rerender(CompState,
                             [CompState EXCEPT !.deviceCapability = AdoptedTier(fps)])
     IN CommitComp(st, "fps", fps) /\ CommitLinkPool(st)

\* A render caused by a prop or by state that no effect modelled here depends on
RenderAgain ==
  /\ alive /\ isMounted
  /\ LET st == Rerender(CompState, CompState)
     IN CommitComp(st, "render", 0) /\ CommitLinkPool(st)

\* updatePreferences: setPreferences with showValueFlow = v
SetShowValueFlow(v) ==
  /\ alive /\ isMounted /\ v # showValueFlow
  /\ LET st == Rerender(CompState, [CompState EXCEPT !.showValueFlow = v])
     IN CommitComp(st, "preferences", 0) /\ CommitLinkPool(st)

\* The component is unmounted: the cleanup of every active effect runs
Unmount ==
  /\ alive
  /\ LET s0 == [CompState EXCEPT !.alive = FALSE, !.isMounted = FALSE,
                                !.hasGraph = FALSE, !.monitoring = FALSE]
         s1 == IF s0.resActive THEN ResourceCleanup(s0) ELSE s0
         s2 == IF s1.animActive THEN ParticleCleanup(s1) ELSE s1
         st == [s2 EXCEPT !.resActive = FALSE, !.animActive = FALSE]
     IN CommitComp(st, "unmount", 0) /\ CommitLinkPool(st)

\* The host runs the particle loop's pending frame request: animate()
AnimationFrame ==
  /\ animPending # {}
  /\ UpdateLinkObjects(hasGraph)
  /\ LET id == MinOf(animPending)
         st == RequestAnimate([CompState EXCEPT !.animPending = @ \ {id}])
     IN CommitComp(st, "frame", 0)

\* linkThreeObject(link): createLinkObject with the component's preferences
LinkThreeObject(v) ==
  /\ alive /\ hasGraph
  /\ \E e \in FixedEnds : \E rnd \in SpreadRandoms :
       CreateLinkObject(v, showValueFlow, 2, e, rnd)
  /\ LET st == [CompState EXCEPT
                  !.poolId.link = PoolIdAfterInit(linkPool.exists, @)]
     IN CommitComp(st, "link", 0)

\* nodeThreeObject(node): createNodeObject, which initialises the node pool
\* when there is none
NodeThreeObject ==
  /\ alive /\ hasGraph
  /\ LET st == [CompState EXCEPT
                  !.nodePool = NodePoolAfterInit(@, "medium"),
                  !.poolId.node = PoolIdAfterInit(nodePool.exists, @)]
     IN CommitComp(st, "node", 0)
  /\ UNCHANGED linkVars

ReportedFps == {0, 14, 15, 19, 20, 29, 30, 39, 40, 60}
CompLinkValues == {100, 3000}

InitComponentSpec ==
  /\ InitIdle
  /\ InitSlot
  /\ InitValid
  /\ InitResources
  /\ InitComponent

NextComponent ==
  \/ Mount /\ UNCHANGED <<forceVars, twinVars, radVars, setupVars, monVars, tierVars, slotVars, validVars, resVars>>
  \/ \E v \in BOOLEAN :
       SetIsVisible(v) /\ UNCHANGED <<forceVars, twinVars, radVars, setupVars, monVars, tierVars, slotVars, validVars, resVars>>
  \/ \E fps \in ReportedFps :
       OnFps(fps) /\ UNCHANGED <<forceVars, twinVars, radVars, setupVars, monVars, tierVars, slotVars, validVars, resVars>>
  \/ \E v \in BOOLEAN :
       SetShowValueFlow(v) /\ UNCHANGED <<forceVars, twinVars, radVars, setupVars, monVars, tierVars, slotVars, validVars, resVars>>
  \/ RenderAgain /\ UNCHANGED <<forceVars, twinVars, radVars, setupVars, monVars, tierVars, slotVars, validVars, resVars>>
  \/ Unmount /\ UNCHANGED <<forceVars, twinVars, radVars, setupVars, monVars, tierVars, slotVars, validVars, resVars>>
  \/ AnimationFrame /\ UNCHANGED <<forceVars, twinVars, radVars, setupVars, monVars, tierVars, slotVars, validVars, resVars>>
  \/ \E v \in CompLinkValues :
       LinkThreeObject(v) /\ UNCHANGED <<forceVars, twinVars, radVars, setupVars, monVars, tierVars, slotVars, validVars, resVars>>
  \/ NodeThreeObject /\ UNCHANGED <<forceVars, twinVars, radVars, setupVars, monVars, tierVars, slotVars, validVars, resVars>>

SpecComponent == InitComponentSpec /\ [][NextComponent]_vars

\* ------------------------------------------------------------------------
\* Properties of the orbital force
\* ------------------------------------------------------------------------
\* The velocity added to node object r by the force(alpha) call just made
DeltaOf(r) ==
  <<node[r].vx - lastForce.pre[r][1],
    node[r].vy - lastForce.pre[r][2],
    node[r].vz - lastForce.pre[r][3]>>

VelocityKept(r) == DeltaOf(r) = <<0, 0, 0>>

Bound(r) == \E i \in 1..Len(nodes) : nodes[i] = r

SqNorm(v) == v[1] * v[1] + v[2] * v[2] + v[3] * v[3]

\* A resolved link with node r at one end and a root or branch at the other
AnchorLinkOf(l, r) ==
  /\ l.source.kind = "object"
  /\ l.target.kind = "object"
  /\ \/ node[l.source.ref].id = node[r].id /\ node[l.target.ref].type \in {"root", "branch"}
     \/ node[l.target.ref].id = node[r].id /\ node[l.source.ref].type \in {"root", "branch"}

HasAnchorLink(r) == \E k \in 1..Len(links) : AnchorLinkOf(links[k], r)

\* The first such link in the order of the bound link collection
FirstAnchorLink(r) ==
  CHOOSE k \in 1..Len(links) :
    AnchorLinkOf(links[k], r) /\ \A j \in 1..(k - 1) : ~AnchorLinkOf(links[j], r)

\* The endpoint of l that is not node r
OtherEnd(l, r) ==
  IF node[l.source.ref].id = node[r].id THEN l.target.ref ELSE l.source.ref

\* C1: whatever nodes and links are bound, a force(alpha) call made while the
\* caller has set strength 0 leaves vx, vy and vz of every node unchanged.
C1_ZeroStrengthNoOp ==
  (lastForce.called /\ strengthArg = 0) => \A r \in Refs : VelocityKept(r)

C1_Witness ==
  /\ lastForce.called
  /\ strengthArg = 0
  /\ \E r \in Refs : Bound(r) /\ ~IsRoot(node[r]) /\ HasAnchorLink(r)

\* C2: a force(alpha) call never changes the velocity of a node of kind root,
\* whatever links mention it.
C2_RootExclusion ==
  lastForce.called => \A r \in Refs : node[r].type = "root" => VelocityKept(r)

C2_Witness ==
  /\ lastForce.called
  /\ strength > 0
  /\ \E r \in Refs : Bound(r) /\ node[r].type = "root" /\ HasAnchorLink(r)
  /\ \E r \in Refs : ~VelocityKept(r)

\* Rounding allowance of the fixed-point velocity delta: half a unit per
\* component, and half a unit of the rounded distance scaled by alpha*strength
Tol(alpha, s) == (alpha * s + 1) \div 2 + 1

\* The distance of node r from the orbital target of the call just made
TargetDistance(r) ==
  LET l == links[FirstAnchorLink(r)]
      t == Target(node[OtherEnd(l, r)], node[r], FindIndex(node, nodes, node[r].id),
                  strength, l.value, lastForce.now)
  IN Distance(<<t[1] - node[r].x, t[2] - node[r].y, t[3] - node[r].z>>)

\* C3: for a non-root node with a parent, the velocity delta of one call has
\* magnitude min(distance, 2) * alpha * strength (to within rounding), hence
\* at most 2 * alpha * strength.
C3_MagnitudeCap ==
  (lastForce.called /\ strength >= 0) =>
    \A r \in Refs :
      (Bound(r) /\ node[r].type # "root" /\ HasAnchorLink(r)) =>
        LET a == lastForce.alpha
            expected == Min(TargetDistance(r), ForceCap * PosScale) * a * strength
            cap == ForceCap * PosScale * a * strength
            tol == Tol(a, strength)
            m == SqNorm(DeltaOf(r))
        IN /\ m <= (expected + tol) * (expected + tol)
           /\ expected > tol => m >= (expected - tol) * (expected - tol)
           /\ m <= (cap + tol) * (cap + tol)

C3_Witness ==
  /\ lastForce.called
  /\ strength > 0
  /\ \E r \in Refs :
       /\ Bound(r) /\ node[r].type # "root" /\ HasAnchorLink(r)
       /\ TargetDistance(r) > 10 * ForceCap * PosScale
       /\ ~VelocityKept(r)

\* C5: a non-root node with qualifying links orbits the other endpoint of the
\* qualifying link that comes first in the bound link collection; the choice
\* is a function of the bound collections, so it is the same on every call.
C5_FirstMatchParent ==
  (lastForce.called /\ strength > 0) =>
    \A r \in Refs :
      (Bound(r) /\ node[r].type # "root" /\ HasAnchorLink(r)) =>
        LET l == links[FirstAnchorLink(r)]
        IN DeltaOf(r) = DeltaToward(node, Closure, r, OtherEnd(l, r), l.value,
                                    lastForce.alpha, lastForce.now)

C5_Witness ==
  /\ lastForce.called
  /\ strength > 0
  /\ \E r \in Refs :
       /\ Bound(r) /\ node[r].type # "root"
       /\ \E j \in 1..Len(links) : \E k \in 1..Len(links) :
            /\ j < k
            /\ AnchorLinkOf(links[j], r)
            /\ AnchorLinkOf(links[k], r)
            /\ OtherEnd(links[j], r) # OtherEnd(links[k], r)
       /\ ~VelocityKept(r)

\* C6: a node without a resolved link to a root or branch node (all its links
\* id-only, or none leading to a root or branch) keeps its velocity.
C6_BareLinksIgnored ==
  lastForce.called => \A r \in Refs : ~HasAnchorLink(r) => VelocityKept(r)

C6_Witness ==
  /\ lastForce.called
  /\ strength > 0
  /\ \E r \in Refs :
       /\ Bound(r) /\ node[r].type # "root" /\ ~HasAnchorLink(r)
       /\ \E k \in 1..Len(links) :
            \/ /\ links[k].source = Bare(node[r].id)
               /\ links[k].target.kind = "object"
               /\ node[links[k].target.ref].type \in {"root", "branch"}
            \/ /\ links[k].target = Bare(node[r].id)
               /\ links[k].source.kind = "object"
               /\ node[links[k].source.ref].type \in {"root", "branch"}

\* ------------------------------------------------------------------------
\* Properties of calculateOrbitRadius
\* ------------------------------------------------------------------------
\* C4: the orbit radius is parent.size + node.size + 10 + adj with
\* adj = 30 / max(linkValue, 1) for a positive link value and 30 otherwise (to
\* the nearest unit of the fixed-point representation); for fixed sizes it is
\* non-increasing in the link value; sizes 10 and 2 give 52 at value 1 and 28
\* at value 5.
C4_OrbitRadius ==
  rad.called =>
    LET adj == rad.radius - (rad.parentSize + rad.nodeSize + 10 * PosScale)
        div == IF rad.value > PosScale THEN rad.value ELSE PosScale
    IN /\ rad.value > 0 =>
            /\ 2 * (adj * div - 30 * PosScale * PosScale) <= div
            /\ 2 * (30 * PosScale * PosScale - adj * div) <= div
       /\ rad.value <= 0 => adj = 30 * PosScale
       /\ (rad.hasPrev /\ rad.prevValue <= rad.value) => rad.radius <= rad.prevRadius
       /\ (rad.parentSize = 10 * PosScale /\ rad.nodeSize = 2 * PosScale) =>
            /\ rad.value = PosScale => rad.radius = 52 * PosScale
            /\ rad.value = 5 * PosScale => rad.radius = 28 * PosScale

C4_Witness ==
  /\ rad.called
  /\ rad.hasPrev
  /\ rad.parentSize = 10 * PosScale
  /\ rad.nodeSize = 2 * PosScale
  /\ rad.prevValue = PosScale
  /\ rad.value = 5 * PosScale
  /\ rad.prevRadius = 52 * PosScale
  /\ rad.radius = 28 * PosScale

C8_SetupFailsCleanly ==
  (lastOp.op = "setup" /\ (~lastOp.hasHandle \/ ~lastOp.hasSim)) =>
    /\ lastOp.threw
    /\ lastOp.error # "none"
    /\ orbitalSlot = lastOp.preSlot
    /\ tickHooks = lastOp.preHooks
    /\ instances = lastOp.preInstances

C8_Witness ==
  /\ lastOp.op = "setup"
  /\ lastOp.hasHandle
  /\ ~lastOp.hasSim
  /\ lastOp.threw
  /\ lastOp.preSlot # NoForce
  /\ orbitalSlot = lastOp.preSlot

\* C9: at the end of every tick notification the installed orbital force is
\* bound to the simulation's current node array and the host's current link
\* array, also when either was replaced since the previous tick.
C9_TickRebinds ==
  (lastOp.op = "tick" /\ orbitalSlot # NoForce) =>
    /\ bind[orbitalSlot].nodes = simNodes
    /\ bind[orbitalSlot].links = fgLinks

C9_Witness ==
  /\ lastOp.op = "tick"
  /\ orbitalSlot # NoForce
  /\ lastOp.preBind.nodes # OwnEmpty
  /\ lastOp.preBind.nodes # simNodes
  /\ lastOp.preBind.links # fgLinks
  /\ bind[orbitalSlot].nodes = simNodes

\* ------------------------------------------------------------------------
\* Properties of link renderables
\* ------------------------------------------------------------------------
\* The particle cap of a quality tier
CapOfTier(d) == IF d = "high" THEN 50 ELSE IF d = "medium" THEN 25 ELSE 10

\* C10: a link with value > 0 created with particle display enabled gets
\* exactly min(ceil(value * 2), cap) particles, cap being that of the tier the
\* link pool was initialised with; value 3 at medium gives 6, value 20 at low
\* gives 10.
C10_ParticleCount ==
  (linkObj.created /\ linkObj.showParticles /\ linkObj.value > 0) =>
    LET cap == CapOfTier(linkObj.poolDetail)
        n == linkObj.count
    IN /\ linkObj.hasParticles
       /\ linkPool.exists /\ linkPool.detail = linkObj.poolDetail
            => linkPool.maxParticles = cap
       /\ n <= cap
       /\ n * PosScale >= 2 * linkObj.value \/ n = cap
       /\ (n - 1) * PosScale < 2 * linkObj.value
       /\ (linkObj.value = 3 * PosScale /\ linkObj.poolDetail = "medium") => n = 6
       /\ (linkObj.value = 20 * PosScale /\ linkObj.poolDetail = "low") => n = 10

C10_Witness ==
  /\ linkObj.created
  /\ linkObj.showParticles
  /\ linkObj.value = 20 * PosScale
  /\ linkObj.poolDetail = "low"
  /\ linkObj.count = 10

\* ------------------------------------------------------------------------
\* Properties of particle systems
\* ------------------------------------------------------------------------
Near(a, b) == a - b \in -1..1

\* C11: a created link renderable carries a particle system and an update
\* callback exactly when particle display is enabled and the link's value is
\* strictly positive; otherwise it holds the plain line only and
\* updateLinkObjects changes nothing for it.
C11_ParticlesIffEnabled ==
  linkObj.created =>
    LET enabled == linkObj.showParticles /\ linkObj.value > 0
    IN /\ psys.exists <=> enabled
       /\ linkObj.hasParticles <=> enabled
       /\ linkObj.hasUpdate <=> enabled
       /\ (~enabled /\ lastUpdate.called) =>
            psys = NoParticles /\ lastUpdate.pre = NoParticles

C11_Witness ==
  /\ linkObj.created
  /\ linkObj.showParticles
  /\ linkObj.value = 0
  /\ lastUpdate.called
  /\ lastUpdate.hasScene
  /\ ~psys.exists

\* C12: one update with non-coincident endpoints replaces every offset o by
\* o + speed, minus 1 when the sum is beyond 1, and puts the particle at
\* source + (target - source) * newOffset for the endpoints' current
\* coordinates; speed 0.1 and offset 0.95 give offset 0.05.
C12_UpdateAdvances ==
  (/\ lastUpdate.called /\ lastUpdate.hasScene /\ lastUpdate.pre.exists
   /\ ends.source # ends.target) =>
    \A i \in 1..psys.count :
      LET o == lastUpdate.pre.offsets[i]
          sum == o + psys.speed
          n == psys.offsets[i]
          d == Diff3(ends.source, ends.target)
      IN /\ n = IF sum > OffDen THEN sum - OffDen ELSE sum
         /\ (psys.speed = 2 /\ o = 19) => n = 1
         /\ Near(psys.positions[i].x, ends.source.x + RDiv(d.x * n, OffDen))
         /\ Near(psys.positions[i].y, ends.source.y + RDiv(d.y * n, OffDen))
         /\ Near(psys.positions[i].z, ends.source.z + RDiv(d.z * n, OffDen))

C12_Witness ==
  /\ lastUpdate.called
  /\ lastUpdate.hasScene
  /\ lastUpdate.pre.exists
  /\ ends.source # ends.target
  /\ lastUpdate.pre.length # psys.length
  /\ psys.speed = 2
  /\ \E i \in 1..psys.count : lastUpdate.pre.offsets[i] = 19 /\ psys.offsets[i] = 1

\* C13: with 0 < speed < 1 and initial offsets in [0,1), every particle
\* offset lies in [0,1) after every update.
C13_OffsetsHalfOpen ==
  psys.exists =>
    \A i \in 1..psys.count : psys.offsets[i] >= 0 /\ psys.offsets[i] < OffDen

\* C14: an update while source and target coincide leaves the positions, the
\* offsets and the stored direction and length as they were.
C14_ZeroLengthNoOp ==
  (/\ lastUpdate.called /\ lastUpdate.hasScene /\ lastUpdate.pre.exists
   /\ ends.source = ends.target) =>
    psys = lastUpdate.pre

C14_Witness ==
  /\ lastUpdate.called
  /\ lastUpdate.hasScene
  /\ lastUpdate.pre.exists
  /\ ends.source = ends.target
  /\ ends.sourceObj /\ ends.targetObj
  /\ lastUpdate.pre.length # 0
  /\ psys = lastUpdate.pre

\* ------------------------------------------------------------------------
\* Properties of the performance monitor
\* ------------------------------------------------------------------------
\* C15: for every FPS value the monitor holds, the recommended level is 'low'
\* below 15, 'medium' from 15 up to but excluding 30, 'high' from 30 on.
C15_QualityThresholds ==
  LET expected == IF pm.fps < 15 THEN "low"
                  ELSE IF pm.fps < 30 THEN "medium" ELSE "high"
  IN /\ getRecommendedQualityLevel(pm.fps) = expected
     /\ monLog.last.op = "quality" => monLog.last.level = expected
     /\ pm.fps = 15 => getRecommendedQualityLevel(pm.fps) = "medium"
     /\ pm.fps = 30 => getRecommendedQualityLevel(pm.fps) = "high"

C15_Witness ==
  /\ monLog.last.op = "quality"
  /\ pm.fps = 15
  /\ monLog.last.level = "medium"

\* C16: after any number of startMonitoring calls exactly one sampling loop is
\* scheduled, and each rendered frame increments the frame counter once.
C16_SingleLoop ==
  /\ pm.tracking => Cardinality(rafPending) = 1
  /\ (monLog.last.op = "frame" /\ monLog.last.pre.tracking) => monLog.last.runs = 1

\* C17: after stopMonitoring no frame request of the monitor is pending, and
\* the sampling function does not run until the next startMonitoring.
C17_StopCancels ==
  /\ ~pm.tracking => rafPending = {}
  /\ (monLog.last.op = "frame" /\ ~monLog.last.pre.tracking) => monLog.last.runs = 0

\* C18: while monitoring, a rendered frame increments the frame counter by
\* one; on a frame at which the time since the window start exceeds the
\* interval, fps = round(frames * 1000 / elapsed), the callback is invoked
\* once with it, the counter is reset and the window start moves to the
\* frame's time; on every other frame no callback runs and fps is unchanged.
C18_WindowSampling ==
  (monLog.last.op = "frame" /\ monLog.last.pre.tracking) =>
    LET pre == monLog.last.pre
        elapsed == clock - pre.lastTime
        frames == pre.frames + 1
    IN IF elapsed > pre.interval
         THEN /\ pm.fps = RDiv(frames * 1000, elapsed)
              /\ pre.callback # "none" =>
                   monLog.last.cbCalls = 1 /\ monLog.last.cbValue = pm.fps
              /\ pm.frames = 0
              /\ pm.lastTime = clock
         ELSE /\ pm.frames = frames
              /\ monLog.last.cbCalls = 0
              /\ pm.fps = pre.fps
              /\ pm.lastTime = pre.lastTime

\* C19: the memory history never holds more than 60 snapshots, they are in
\* recording order, and from the 61st on each recording removes the oldest.
C19_HistoryBounded ==
  LET n == Len(memoryHistory)
  IN /\ n <= 60
     /\ n = Min(monLog.recorded, 60)
     /\ \A i \in 1..n : memoryHistory[i].memory = monLog.recorded - n + i
     /\ \A i \in 1..(n - 1) : memoryHistory[i].time < memoryHistory[i + 1].time

C19_Witness ==
  /\ monLog.recorded >= 62
  /\ monLog.starts = 2
  /\ Len(memoryHistory) = 60
  /\ memoryHistory[1].memory = monLog.recorded - 59
  /\ memoryHistory[2].time > memoryHistory[1].time + 100

\* ------------------------------------------------------------------------
\* Properties of the quality tiers
\* ------------------------------------------------------------------------
\* C20: the particle cap is 50 / 25 / 10 and the particle size multiplier
\* 2.0 / 1.5 / 1.0 at high / medium / low; the segment count for base b is b,
\* max(8, floor(0.7 b)), max(6, floor(0.5 b)); for the bases 32, 24 and 16 the
\* count never increases when the tier drops.
C20_TierMapping ==
  /\ tier.called =>
       /\ tier.maxParticles =
            (IF tier.detail = "high" THEN 50 ELSE IF tier.detail = "medium" THEN 25 ELSE 10)
       /\ 10 * tier.particleSize =
            (IF tier.detail = "high" THEN 20 ELSE IF tier.detail = "medium" THEN 15 ELSE 10)
              * PosScale
       /\ tier.detail = "high" => tier.segments = tier.base
       /\ tier.detail = "medium" =>
            /\ tier.segments >= 8
            /\ tier.segments = 8 \/ 10 * tier.segments <= 7 * tier.base
            /\ 10 * (tier.segments + 1) > 7 * tier.base
       /\ tier.detail = "low" =>
            /\ tier.segments >= 6
            /\ tier.segments = 6 \/ 2 * tier.segments <= tier.base
            /\ 2 * (tier.segments + 1) > tier.base
       /\ tier.base \in {32, 24, 16} =>
            /\ tier.segments <= getResolution("high", tier.base)
            /\ tier.detail = "low" => tier.segments <= getResolution("medium", tier.base)
            /\ tier.detail = "medium" => tier.segments >= getResolution("low", tier.base)

C20_Witness ==
  /\ tier.called
  /\ tier.detail = "medium"
  /\ tier.base = 32
  /\ tier.segments = 22
  /\ tier.maxParticles = 25
  /\ tier.particleSize = 150


\* ------------------------------------------------------------------------
\* Frame of the force
\* ------------------------------------------------------------------------
\* The node objects with their velocity fields blanked
WithoutVelocity(h) == [r \in Refs |-> [h[r] EXCEPT !.vx = 0, !.vy = 0, !.vz = 0]]

\* C27: a force(alpha) call changes nothing but vx, vy and vz of the bound
\* non-root nodes: every other field of every node (position, size, kind,
\* id), the velocity of root and unbound nodes, the host's and the bound
\* collections, the strength and the focal point are as before the call.
C27_ForceFrame ==
  [][lastForce'.called =>
       /\ WithoutVelocity(node') = WithoutVelocity(node)
       /\ \A r \in Refs :
            (node[r].type = "root" \/ ~Bound(r)) => Velocity(node')[r] = Velocity(node)[r]
       /\ UNCHANGED <<hostNodes, hostLinks, nodes, links, strength, focalPoint>>]_vars

C27_Witness ==
  /\ lastForce.called
  /\ strength > 0
  /\ \E r \in Refs : Bound(r) /\ node[r].type # "root" /\ ~VelocityKept(r)
  /\ \E q \in Refs : Bound(q) /\ node[q].type = "root" /\ VelocityKept(q)

\* ------------------------------------------------------------------------
\* The parent the force derives
\* ------------------------------------------------------------------------
\* The node object the force takes as the parent of node object r
DerivedParent(r) ==
  ParentOf(node, links[UsedLink(node, Closure, r)], node[r])

\* C29: in a force(alpha) call the parent derived for a bound non-root node
\* with a qualifying link is a root or branch node other than the node
\* itself, also when the links include a link from a branch to itself.
C29_ParentIsAnotherAnchor ==
  (lastForce.called /\ strength > 0) =>
    \A r \in Refs :
      (Bound(r) /\ UsedLink(node, Closure, r) # 0) =>
        /\ DerivedParent(r) # r
        /\ node[DerivedParent(r)].type \in {"root", "branch"}

\* ------------------------------------------------------------------------
\* Calls into the monitor from its own callback
\* ------------------------------------------------------------------------
\* C28: after a rendered frame whose FPS callback called stopMonitoring the
\* monitor has no frame request pending, and after one whose callback called
\* startMonitoring it has exactly one: the interrupted sampling function does
\* not request a frame for itself.
C28_ReentrantCallback ==
  (monLog.last.op = "frame" /\ monLog.last.cbCalls > 0) =>
    /\ monLog.last.pre.callback = "stops" => rafPending = {}
    /\ monLog.last.pre.callback = "restarts" => Cardinality(rafPending) = 1

\* ------------------------------------------------------------------------
\* Orbital slots of siblings
\* ------------------------------------------------------------------------
\* C26: two distinct nodes of one kind orbiting the same parent with the same
\* radius have different orbital slots (the plane from the index modulo 5, the
\* phase index * pi/6 modulo a full turn), and their target positions differ
\* at every clock value.
C26_DistinctSlots ==
  slot.called =>
    /\ <<PlaneOf(slot.first), PhaseOf(slot.first)>>
         # <<PlaneOf(slot.second), PhaseOf(slot.second)>>
    /\ slot.targetFirst # slot.targetSecond

\* ------------------------------------------------------------------------
\* Properties of validateEcosystemData
\* ------------------------------------------------------------------------
\* The graph has pairwise distinct node ids, kinds root, branch or leaf,
\* positive sizes, success values in [0, 1] and links between existing nodes
WellFormedGraph(data) ==
  /\ ~data.isNull /\ data.nodes.isArray /\ data.links.isArray
  /\ LET ns == data.nodes.items
         ls == data.links.items
     IN /\ \A i \in 1..Len(ns) : \A j \in 1..Len(ns) : i # j => ns[i].id # ns[j].id
        /\ \A i \in 1..Len(ns) :
             /\ ns[i].type \in {"root", "branch", "leaf"}
             /\ ns[i].size.t = "number" /\ ns[i].size.v > 0
             /\ ns[i].success.t = "number"
             /\ ns[i].success.v >= 0 /\ ns[i].success.v <= SuccessDen
        /\ \A k \in 1..Len(ls) :
             /\ \E i \in 1..Len(ns) : ls[k].source.t # "missing" /\ ns[i].id = ls[k].source.id
             /\ \E i \in 1..Len(ns) : ls[k].target.t # "missing" /\ ns[i].id = ls[k].target.id

\* C23: every graph validateEcosystemData accepts has pairwise distinct node
\* ids, kinds in {root, branch, leaf}, positive sizes, success values in
\* [0, 1] and links whose source and target are ids of existing nodes; a graph
\* violating any of these is rejected with an error.
C23_AcceptedGraphsWellFormed ==
  valid.called => (~WellFormedGraph(valid.data) => valid.threw)

\* ------------------------------------------------------------------------
\* Properties of the ResourceManager
\* ------------------------------------------------------------------------
\* C30: after every sequence of addGeometry, addMaterial, addTexture and
\* dispose calls each resource object has been disposed at most once and no
\* registered resource has been disposed, also when an object is added again
\* under its own name or under a second name.
C30_DisposedOnceUnregistered ==
  \A k \in ResourceKinds :
    /\ \A o \in ResourceObjects : disposals[k][o] <= 1
    /\ \A n \in ResourceNames :
         registry[k][n] # NoObject => disposals[k][registry[k][n]] = 0

\* ------------------------------------------------------------------------
\* Properties of the component
\* ------------------------------------------------------------------------
\* C21: for every FPS value reported to the component, the tier its callback
\* adopts is the tier the monitor's thresholds give: low below 15, medium
\* from 15 to below 30, high from 30.
C21_AdoptedTierMatchesMonitor ==
  lastComp.op = "fps" => deviceCapability = getRecommendedQualityLevel(lastComp.fps)

\* C22: initNodeResources and initLinkResources called with the tier their
\* pool is already initialised with change nothing: the pool object is the
\* one that existed before the call, with the resources and parameters it had.
C22_SameTierInitNoOp ==
  lastComp.init.called =>
    /\ (lastComp.init.nodePool.exists /\ lastComp.init.nodePool.detail = lastComp.init.detail)
         => /\ nodePool = lastComp.init.nodePool
            /\ poolId.node = lastComp.init.poolId.node
    /\ (lastComp.init.linkPool.exists /\ lastComp.init.linkPool.detail = lastComp.init.detail)
         => /\ linkPool = lastComp.init.linkPool
            /\ poolId.link = lastComp.init.poolId.link

C22_Witness ==
  /\ lastComp.init.called
  /\ lastComp.init.nodePool.exists
  /\ lastComp.init.nodePool.detail = lastComp.init.detail
  /\ lastComp.init.linkPool.exists
  /\ lastComp.init.linkPool.detail = lastComp.init.detail
  /\ poolId.link.cur # 0

\* C24: however tier changes, visibility changes, pool initialisation and
\* disposal and link creations interleave, a link created while the view is
\* visible gets the particle cap of the tier current at that moment.
C24_CapOfCurrentTier ==
  (lastComp.op = "link" /\ isMounted /\ isVisible) =>
    /\ linkPool.maxParticles = CapOfTier(deviceCapability)
    /\ linkObj.hasParticles =>
         linkObj.count = Min(CeilTimes2(linkObj.value), CapOfTier(deviceCapability))

\* C25: in every reachable state of the component at most one frame request
\* of the particle loop is pending, and none is pending while the component
\* is unmounted, not visible, or has the value-flow display switched off.
C25_SingleParticleLoop ==
  /\ Cardinality(animPending) <= 1
  /\ (~alive \/ ~isMounted \/ ~isVisible \/ ~showValueFlow) => animPending = {}

C25_Witness ==
  /\ lastComp.op \in {"visible", "preferences", "unmount"}
  /\ lastComp.pending # {}
  /\ animPending = {}
  /\ lastUpdate.called

====
